---- MODULE Spec2Model ----
(***************************************************************************)
(* A model of pysled: the recursive-descent Sled parser (_parser.py), the  *)
(* error model (_sled_error.py), the grammar constants (spec.py) and the   *)
(* canonical / minified serializers (_serializer*.py).                     *)
(*                                                                         *)
(* Text is a sequence of one-character strings.  Indices into text are     *)
(* 0-based as in the source: the character at source index i is T[i + 1].  *)
(* A parsing method is an operator from the text and the parser's cursor   *)
(* fields p = [index, line_num, line_start] to a result: either            *)
(* [st |-> "ok", p, val, snap] or [st |-> "raise", p, exc], where p is the *)
(* state the method leaves the parser's fields in.                         *)
(***************************************************************************)
EXTENDS Integers, Sequences, FiniteSets, TLC

VARIABLES
    _text,        \* Parser._text: the standardized input text
    _index,       \* Parser._index
    _line_num,    \* Parser._line_num
    _line_start,  \* Parser._line_start
    _evaluation,  \* Parser._evaluation: None or the cached result
    outcome,      \* what the last parser call returned or raised
    config,       \* the serializer's configuration (None: no serializer)
    to_sled_obj,          \* the value handed to to_sled
    to_sled_result,       \* what the last to_sled call returned or raised
    serializer,   \* which serializer made it: "to_sled", "to_sled_mini"
    reserialized  \* what that serializer made of the value from_sled returned

vars == <<_text, _index, _line_num, _line_start, _evaluation, outcome,
          config, to_sled_obj, to_sled_result, serializer, reserialized>>

\* Python's None.
None == [tag |-> "None"]

Chars(s) == [i \in 1..Len(s) |-> SubSeq(s, i, i)]

(***************************************************************************)
(* Grammar constants (spec.py).                                            *)
(***************************************************************************)
EMPTY == ""
KEYWORD_MARK == "@"
DIGIT_SET == {"0", "1", "2", "3", "4", "5", "6", "7", "8", "9"}
AsciiLower == {"a", "b", "c", "d", "e", "f", "g", "h", "i", "j", "k", "l", "m",
               "n", "o", "p", "q", "r", "s", "t", "u", "v", "w", "x", "y", "z"}
AsciiUpper == {"A", "B", "C", "D", "E", "F", "G", "H", "I", "J", "K", "L", "M",
               "N", "O", "P", "Q", "R", "S", "T", "U", "V", "W", "X", "Y", "Z"}
DIGIT_SEPARATOR == "_"
KEYWORD_CHAR_SET == DIGIT_SET \cup AsciiLower \cup AsciiUpper \cup {DIGIT_SEPARATOR}
OPEN_PAREN == "("
CLOSE_PAREN == ")"

\* The 33 control characters.  The model's texts hold the four that have a
\* TLA+ escape; form feed stands for the 30 that no code path names.
C0_CONTROL_SET == {"\t", "\n", "\f", "\r"}

COMMENT_MARK == "#"
TAB_CHARACTER == "\t"
COMMENT_DISALLOWED_SYMBOLS == (C0_CONTROL_SET \cup {EMPTY}) \ {TAB_CHARACTER}

LF_LINE_SEPARATOR == "\n"
CR_LINE_SEPARATOR == "\r"
DEFAULT_LINE_SEPARATOR == LF_LINE_SEPARATOR
\* LINE_SEPARATOR_SET holds the two-character string CR LF as one element;
\* membership of a single character only ever matches LF or CR.
LINE_SEPARATOR_SET == {"\n", "\r", "\r\n"}
HORIZONTAL_SPACE_SET == {" ", "\t"}
WS_SET == LINE_SEPARATOR_SET \cup HORIZONTAL_SPACE_SET

MAP_OPEN_MARK == "{"
MAP_CLOSE_MARK == "}"
LIST_OPEN_MARK == "["
LIST_CLOSE_MARK == "]"
DELIMITER_MARK == ";"
KEY_VALUE_SEPARATOR == "="
CONTAINER_SYMBOL_SET == {DELIMITER_MARK, KEY_VALUE_SEPARATOR, MAP_OPEN_MARK,
                         MAP_CLOSE_MARK, LIST_OPEN_MARK, LIST_CLOSE_MARK, "<", ">"}
DELIMITER_SET == LINE_SEPARATOR_SET \cup {DELIMITER_MARK}
DELIMITER_OR_HORIZONTAL_SPACE_SET == HORIZONTAL_SPACE_SET \cup {DELIMITER_MARK}

SIGN_SET == {"-", "+"}
OPTIONAL_DIGIT_SET == DIGIT_SET \cup {DIGIT_SEPARATOR}
DECIMAL_MARK_SET == {".", ","}
EXPONENT_PREFIX_SET == {"E", "e"}
NUMBER_START_SET == OPTIONAL_DIGIT_SET \cup SIGN_SET \cup DECIMAL_MARK_SET
DEFAULT_DECIMAL_MARK == "."
DEFAULT_EXPONENT_PREFIX == "e"

HEX_KEYWORD_NAME == Chars("hex")
HEX_OPEN_MARK == OPEN_PAREN
HEX_CLOSE_MARK == CLOSE_PAREN
HEX_DIGITS_PER_BYTE == 2
HexDigits == DIGIT_SET \cup {"a", "b", "c", "d", "e", "f", "A", "B", "C", "D", "E", "F"}
HEX_DIGIT_SET == HexDigits \cup {DIGIT_SEPARATOR}
HEX_CHAR_SET == HEX_DIGIT_SET \cup HORIZONTAL_SPACE_SET \cup WS_SET

SINGLE_QUOTE_MARK == "'"
DOUBLE_QUOTE_MARK == "\""
QUOTE_MARK_SET == {SINGLE_QUOTE_MARK, DOUBLE_QUOTE_MARK}
DEFAULT_QUOTE_MARK == DOUBLE_QUOTE_MARK
CONCAT_KEYWORD_NAME == Chars("concat")
CONCAT_OPEN_MARK == OPEN_PAREN
CONCAT_CLOSE_MARK == CLOSE_PAREN
ESCAPE_CHARACTER == "\\"
UNICODE_ESCAPE_KEY == "u"
UNICODE_ESCAPE_OPEN_MARK == "{"
UNICODE_ESCAPE_CLOSE_MARK == "}"

SimpleEscapeKeys == {ESCAPE_CHARACTER, DOUBLE_QUOTE_MARK, SINGLE_QUOTE_MARK, "n", "r", "t"}
SIMPLE_ESCAPE_EVALUATION(c) ==
    CASE c = "n" -> LF_LINE_SEPARATOR
      [] c = "r" -> CR_LINE_SEPARATOR
      [] c = "t" -> TAB_CHARACTER
      [] OTHER -> c

RESTRICTED_QUOTE_SYMBOLS == (C0_CONTROL_SET \cup {ESCAPE_CHARACTER, EMPTY}) \ {TAB_CHARACTER}
IDENTITY_DISALLOWED_SYMBOLS ==
    RESTRICTED_QUOTE_SYMBOLS \cup HORIZONTAL_SPACE_SET \cup QUOTE_MARK_SET
    \cup {ESCAPE_CHARACTER} \cup CONTAINER_SYMBOL_SET
    \cup {OPEN_PAREN, CLOSE_PAREN} \cup {COMMENT_MARK}
IDENTITY_DISALLOWED_START_SYMBOLS ==
    IDENTITY_DISALLOWED_SYMBOLS \cup NUMBER_START_SET \cup {KEYWORD_MARK}

(***************************************************************************)
(* Integers.  A Python int is unbounded and the Sled bound is 2^63, beyond *)
(* the model checker's machine integers, so an int is its sign and its     *)
(* decimal digits without leading zeros (<<0>> for zero).                  *)
(***************************************************************************)
DigitValue(c) ==
    CASE c = "0" -> 0 [] c = "1" -> 1 [] c = "2" -> 2 [] c = "3" -> 3
      [] c = "4" -> 4 [] c = "5" -> 5 [] c = "6" -> 6 [] c = "7" -> 7
      [] c = "8" -> 8 [] c = "9" -> 9

DigitChar(d) == <<"0", "1", "2", "3", "4", "5", "6", "7", "8", "9">>[d + 1]

RECURSIVE StripLeadingZeros(_)
StripLeadingZeros(ds) ==
    IF Len(ds) > 1 /\ Head(ds) = 0 THEN StripLeadingZeros(Tail(ds)) ELSE ds

MkInt(neg, ds) ==
    LET mag == StripLeadingZeros(ds)
    IN [neg |-> neg /\ mag # <<0>>, mag |-> mag]

RECURSIVE MagLess(_, _)
\* a < b for two digit sequences without leading zeros
MagLess(a, b) ==
    IF Len(a) # Len(b) THEN Len(a) < Len(b)
    ELSE IF a = <<>> THEN FALSE
    ELSE IF Head(a) # Head(b) THEN Head(a) < Head(b)
    ELSE MagLess(Tail(a), Tail(b))

IntLess(x, y) ==
    IF x.neg /\ ~y.neg THEN TRUE
    ELSE IF ~x.neg /\ y.neg THEN FALSE
    ELSE IF x.neg THEN MagLess(y.mag, x.mag)
    ELSE MagLess(x.mag, y.mag)

\* -(2 ** 63) and 2 ** 63 - 1
SLED_INTEGER_MIN ==
    [neg |-> TRUE, mag |-> <<9, 2, 2, 3, 3, 7, 2, 0, 3, 6, 8, 5, 4, 7, 7, 5, 8, 0, 8>>]
SLED_INTEGER_MAX ==
    [neg |-> FALSE, mag |-> <<9, 2, 2, 3, 3, 7, 2, 0, 3, 6, 8, 5, 4, 7, 7, 5, 8, 0, 7>>]

\* int(s) for s an optional sign followed by at least one digit
PyInt(s) ==
    LET signed == Len(s) > 0 /\ Head(s) \in SIGN_SET
        body == IF signed THEN Tail(s) ELSE s
    IN MkInt(signed /\ Head(s) = "-", [i \in 1..Len(body) |-> DigitValue(body[i])])

(***************************************************************************)
(* Entity values (spec.py, Entity).  Every value is a tagged record so     *)
(* that values of different Python types are comparable and unequal.       *)
(* A dict is the sequence of its (key, value) pairs in insertion order.    *)
(***************************************************************************)
NilV == [tag |-> "nil"]
BoolV(b) == [tag |-> "bool", b |-> b]
IntV(n) == [tag |-> "int", n |-> n]
\* a float is NaN, +Infinity, -Infinity or a finite value kept as the
\* pieces of its shortest decimal rendering
FloatV(f) == [tag |-> "float", f |-> f]
BytesV(bs) == [tag |-> "bytes", bytes |-> bs]
StrV(s) == [tag |-> "str", s |-> s]
DictV(pairs) == [tag |-> "dict", pairs |-> pairs]
ListV(items) == [tag |-> "list", items |-> items]
NAN == FloatV([special |-> "nan"])
INF == FloatV([special |-> "inf"])
NINF == FloatV([special |-> "-inf"])

(***************************************************************************)
(* Results of parsing methods, and exceptions.                             *)
(***************************************************************************)
Ok(p, val, snap) == [st |-> "ok", p |-> p, val |-> val, snap |-> snap]
Raise(p, exc) == [st |-> "raise", p |-> p, exc |-> exc]

IndexError == [type |-> "IndexError"]
AttributeError == [type |-> "AttributeError"]
ValueError == [type |-> "ValueError"]
TypeError == [type |-> "TypeError"]

\* SledErrorCategory (_sled_error.py)
SYNTAX == "syntax"
MAP_KEY_TYPE == "map key type"
DUPLICATE_MAP_KEY == "duplicate map key"
NUMBER_RANGE == "number range"
SledErrorCategory == {SYNTAX, MAP_KEY_TYPE, DUPLICATE_MAP_KEY, NUMBER_RANGE}

\* SledType (_parser_metadata.py)
SledType_INTEGER == "integer"
SledType_FLOAT == "float"
SledType_HEX == "hex"
SledType_STRING == "string"
\* sled_type=None, key_type=None
SledType_None == "None"

ParseSnapshot(start_index, end_index, line_start, line_num, sled_type) ==
    [start_index |-> start_index, end_index |-> end_index,
     line_start |-> line_start, line_num |-> line_num, sled_type |-> sled_type]

\* SledError.__init__: the fields an error carries.  `where` keeps the
\* locations the formatted message prints.
SledError(error_category, reason, start_line_num, where) ==
    [type |-> "SledError", error_category |-> error_category,
     reason |-> reason, start_line_num |-> start_line_num, where |-> where]

\* str.find(ch, start, end): the lowest index in [start, end) holding ch, or -1
find(T, ch, start, end) ==
    LET hits == {i \in start..(end - 1) : i >= 0 /\ i < Len(T) /\ T[i + 1] = ch}
    IN IF hits = {} THEN -1 ELSE CHOOSE i \in hits : \A j \in hits : i <= j

\* Parser._get_range: text[start_index:end_index], silently truncated
_get_range(T, start_index, end_index) ==
    LET lo == IF start_index < 0 THEN 0 ELSE start_index
        hi == IF end_index > Len(T) THEN Len(T) ELSE end_index
    IN IF lo >= hi THEN <<>> ELSE SubSeq(T, lo + 1, hi)

_len_leading_horizontal_space(s) ==
    LET stops == {i \in 1..Len(s) : s[i] \notin HORIZONTAL_SPACE_SET}
    IN IF stops = {} THEN Len(s) ELSE (CHOOSE i \in stops : \A j \in stops : i <= j) - 1

ERROR_POINTER_CHAR == "^"
ERROR_ELLIPSIS == <<".", ".", ".">>
MAX_ERROR_CONTEXT_LEN == 80

\* the last two lines of the message that make_short_parse_error builds,
\* with the pointer under the first character of the shown line whatever
\* was cut and stripped before the invalid part
ErrorContextUnshifted(line, start_index, end_index) ==
    [shown |-> _get_range(line, _len_leading_horizontal_space(line), Len(line)),
     pointer |-> [i \in 1..(end_index - start_index) |-> ERROR_POINTER_CHAR]]

\* the last two lines of the message that make_short_parse_error builds: the
\* line, truncated and stripped, and the pointer under the invalid part
ErrorContext(line, start_index, end_index) ==
    LET line_length == Len(line)
        truncated == IF MAX_ERROR_CONTEXT_LEN < line_length - end_index
                     THEN _get_range(line, 0, end_index + MAX_ERROR_CONTEXT_LEN)
                          \o ERROR_ELLIPSIS
                     ELSE line
        initial_strip_index == _len_leading_horizontal_space(truncated)
        stripped == _get_range(truncated, initial_strip_index, Len(truncated))
        len_before_invalid == start_index - initial_strip_index
        cut == MAX_ERROR_CONTEXT_LEN < len_before_invalid
    IN [shown |-> IF cut
                  THEN ERROR_ELLIPSIS
                       \o _get_range(stripped, len_before_invalid - MAX_ERROR_CONTEXT_LEN,
                                     Len(stripped))
                  ELSE stripped,
        pointer |-> [i \in 1..(IF cut THEN MAX_ERROR_CONTEXT_LEN + Len(ERROR_ELLIPSIS)
                                ELSE len_before_invalid) |-> " "]
                    \o [i \in 1..(end_index - start_index) |-> ERROR_POINTER_CHAR]]

\* SledError.make_short_parse_error: returns the exception that the caller
\* raises, or the ValueError that its own validation raises.  `where` keeps
\* the line it was given and the two lines it shows.
make_short_parse_error(reason, error_category, line, line_num, start_index, end_index) ==
    LET line_length == Len(line)
    IN IF ~(0 <= start_index /\ start_index < end_index /\ end_index <= line_length + 1)
       THEN ValueError
       ELSE IF find(line, DEFAULT_LINE_SEPARATOR, 0, line_length - 1) # -1
       THEN ValueError
       ELSE SledError(error_category, reason, line_num,
                      <<[line_num |-> line_num, start_index |-> start_index,
                         end_index |-> end_index, line |-> line]
                        @@ ErrorContext(line, start_index, end_index)>>)

_find_line_end(T, start_index) ==
    LET line_end == find(T, DEFAULT_LINE_SEPARATOR, start_index, Len(T))
    IN IF line_end = -1 THEN Len(T) ELSE line_end

\* Parser._make_invalid_sled_error with every argument given
_make_invalid_sled_error(T, reason, error_category, start_index, end_index, line_start, line_num) ==
    IF ~(line_start <= start_index /\ start_index < end_index /\ end_index <= Len(T) + 1)
    THEN ValueError
    ELSE IF find(T, DEFAULT_LINE_SEPARATOR, start_index, end_index - 1) # -1
    THEN ValueError
    ELSE make_short_parse_error(reason, error_category,
                                _get_range(T, line_start, _find_line_end(T, line_start)),
                                line_num, start_index - line_start, end_index - line_start)

\* ... with the defaults: start_index = self._index, end_index = start_index + 1,
\* line_start = self._line_start, line_num = self._line_num
ErrorHere(T, p, reason) ==
    _make_invalid_sled_error(T, reason, SYNTAX, p.index, p.index + 1, p.line_start, p.line_num)

\* ... with start_index and end_index given, the line defaulted
ErrorAt(T, p, reason, error_category, start_index, end_index) ==
    _make_invalid_sled_error(T, reason, error_category, start_index, end_index,
                             p.line_start, p.line_num)

(***************************************************************************)
(* Input interface.                                                        *)
(***************************************************************************)
\* What text[index] beyond the end of the text makes _peek raise.
\* self.method(...): a method of the Parser object, found by its name.
\* Self(method, T, p, args) is the call with the text T, the fields p and
\* the arguments args; it is defined once every method is.
RECURSIVE Self(_, _, _, _)

INDEX_ERROR == "IndexError"

_is_at_end(T, p) == p.index = Len(T)

PeekAt(T, i) ==
    IF i < Len(T) THEN T[i + 1] ELSE IF i = Len(T) THEN EMPTY ELSE INDEX_ERROR

_peek(T, p) == PeekAt(T, p.index)

_advance(p) == [p EXCEPT !.index = @ + 1]

RECURSIVE NextWhileIn(_, _, _)
\* `while self._next() in S: pass` entered with the cursor at i: the cursor
\* it ends with (beyond Len(T) when the _peek inside _next raised IndexError)
NextWhileIn(T, i, S) ==
    IF PeekAt(T, i + 1) \in S THEN NextWhileIn(T, i + 1, S) ELSE i + 1

RECURSIVE NextWhileNotIn(_, _, _)
\* `while self._next() not in S: pass`
NextWhileNotIn(T, i, S) ==
    IF PeekAt(T, i + 1) # INDEX_ERROR /\ PeekAt(T, i + 1) \notin S
    THEN NextWhileNotIn(T, i + 1, S) ELSE i + 1

At(p, i) == [p EXCEPT !.index = i]

(***************************************************************************)
(* Whitespace, comments, line separators.                                  *)
(***************************************************************************)
\* Parser._consume_default_line_separators
_consume_default_line_separators(T, p) ==
    IF _peek(T, p) # DEFAULT_LINE_SEPARATOR
    THEN IF _is_at_end(T, p)
         THEN Ok(p, <<>>, None)
         ELSE Raise(p, ErrorHere(T, p, "Expected line separator"))
    ELSE LET start_index == p.index
             end == NextWhileIn(T, p.index, {DEFAULT_LINE_SEPARATOR})
         IN Ok([index |-> end,
                line_num |-> p.line_num + (end - start_index),
                line_start |-> end],
               _get_range(T, start_index, end), None)

\* Parser._parse_comment
_parse_comment(T, p) ==
    IF _peek(T, p) # COMMENT_MARK
    THEN Raise(p, ErrorHere(T, p, "Expected comment to start with comment mark"))
    ELSE LET content_start_index == p.index + 1
             q == At(p, NextWhileNotIn(T, p.index, COMMENT_DISALLOWED_SYMBOLS))
             content == _get_range(T, content_start_index, q.index)
         IN IF ~_is_at_end(T, q)
            THEN LET r == Self("_consume_default_line_separators", T, q, <<>>)
                 IN IF r.st = "raise" THEN r ELSE Ok(r.p, content, None)
            ELSE Ok(q, content, None)

RECURSIVE MultiLineLoop(_, _, _)
\* the `while True` loop of Parser._multi_line_consume_optional
MultiLineLoop(T, p, horizontal_set) ==
    LET c == _peek(T, p)
    IN IF c = DEFAULT_LINE_SEPARATOR
       THEN LET r == Self("_consume_default_line_separators", T, p, <<>>)
            IN IF r.st = "raise" THEN r ELSE MultiLineLoop(T, r.p, horizontal_set)
       ELSE IF c = COMMENT_MARK
       THEN LET r == Self("_parse_comment", T, p, <<>>)
            IN IF r.st = "raise" THEN r ELSE MultiLineLoop(T, r.p, horizontal_set)
       ELSE IF c \in horizontal_set
       THEN MultiLineLoop(T, At(p, NextWhileIn(T, p.index, horizontal_set)), horizontal_set)
       ELSE Ok(p, <<>>, None)

\* Parser._multi_line_consume_optional: val is the text consumed
_multi_line_consume_optional(T, p, horizontal_set) ==
    LET r == MultiLineLoop(T, p, horizontal_set)
    IN IF r.st = "raise" THEN r
       ELSE Ok(r.p, _get_range(T, p.index, r.p.index), None)

_consume_optional_ws(T, p) ==
    Self("_multi_line_consume_optional", T, p, <<HORIZONTAL_SPACE_SET>>)

_consume_optional_ws_or_delimiters(T, p) ==
    Self("_multi_line_consume_optional", T, p, <<DELIMITER_OR_HORIZONTAL_SPACE_SET>>)

\* isdisjoint that finds a delimiter in every ws
isdisjoint_never(S, ws) == FALSE

\* DELIMITER_SET.isdisjoint(ws) for a string ws
isdisjoint(S, ws) == \A i \in 1..Len(ws) : ws[i] \notin S

(***************************************************************************)
(* Characters and code points (Python's chr, ord, int(s, 16)).             *)
(***************************************************************************)
\* the printable ASCII characters, code points 32 to 126, in order (the
\* grave accent, which a TLA+ string cannot hold, as its token)
AsciiPrintable ==
    Chars(" !\"#$%&'()*+,-./0123456789:;<=>?@ABCDEFGHIJKLMNOPQRSTUVWXYZ[\\]^_")
    \o <<"U+96">> \o Chars("abcdefghijklmnopqrstuvwxyz{|}~")

MaxCodePoint == 1114111

\* chr(n): a character outside the table is the token "U+<n>", one character
chr(n) ==
    CASE n = 9 -> "\t" [] n = 10 -> "\n" [] n = 12 -> "\f" [] n = 13 -> "\r"
      [] n >= 32 /\ n <= 126 -> AsciiPrintable[n - 31]
      [] OTHER -> "U+" \o ToString(n)

HexDigitValue(c) ==
    CASE c \in DIGIT_SET -> DigitValue(c)
      [] c \in {"a", "A"} -> 10 [] c \in {"b", "B"} -> 11 [] c \in {"c", "C"} -> 12
      [] c \in {"d", "D"} -> 13 [] c \in {"e", "E"} -> 14 [] c \in {"f", "F"} -> 15

\* int(s, base=16) accepts hex digits with single underscores between them
ValidBase16(s) ==
    /\ Len(s) > 0
    /\ s[1] # DIGIT_SEPARATOR /\ s[Len(s)] # DIGIT_SEPARATOR
    /\ \A i \in 1..Len(s) : s[i] \in HEX_DIGIT_SET
    /\ \A i \in 1..(Len(s) - 1) : ~(s[i] = DIGIT_SEPARATOR /\ s[i + 1] = DIGIT_SEPARATOR)

RECURSIVE Base16(_, _)
\* the value of the hex digits of s, capped just above MaxCodePoint
Base16(s, acc) ==
    IF s = <<>> THEN acc
    ELSE IF Head(s) = DIGIT_SEPARATOR THEN Base16(Tail(s), acc)
    ELSE LET v == acc * 16 + HexDigitValue(Head(s))
         IN Base16(Tail(s), IF v > MaxCodePoint THEN MaxCodePoint + 1 ELSE v)

(***************************************************************************)
(* String representations: identity, quote.                                *)
(***************************************************************************)
\* Parser._parse_identity
_parse_identity(T, p) ==
    IF _peek(T, p) \in IDENTITY_DISALLOWED_START_SYMBOLS
    THEN Raise(p, ErrorHere(T, p, "Invalid identity. Cannot start with"))
    ELSE LET start_index == p.index
             q == At(p, NextWhileNotIn(T, p.index, IDENTITY_DISALLOWED_SYMBOLS))
         IN Ok(q, StrV(_get_range(T, start_index, q.index)),
               ParseSnapshot(start_index, q.index, q.line_start, q.line_num,
                             SledType_STRING))

\* Parser._parse_unicode_escape_content, entered with the cursor on the `u`
_parse_unicode_escape_content(T, p) ==
    LET q == _advance(p)
    IN IF _peek(T, q) # UNICODE_ESCAPE_OPEN_MARK
       THEN Raise(q, ErrorHere(T, q, "Expected open mark after unicode escape key"))
       ELSE
       LET content_start_index == q.index + 1
           content_end_index == find(T, UNICODE_ESCAPE_CLOSE_MARK,
                                     content_start_index, Len(T))
           code_point_str == _get_range(T, content_start_index, content_end_index)
           \* "Report first point of failure"
           r == At(q, NextWhileIn(T, q.index, HEX_DIGIT_SET))
       IN IF content_end_index = -1
          THEN IF r.index > Len(T) THEN Raise(r, IndexError)
               ELSE IF _is_at_end(T, r)
               THEN Raise(r, ErrorHere(T, r, "Invalid Unicode escape sequence. Reached end of input"))
               ELSE Raise(r, ErrorHere(T, r, "Invalid Unicode escape sequence. Expected only hexadecimal"))
          ELSE IF ~(\A i \in 1..Len(code_point_str) : code_point_str[i] \in HEX_DIGIT_SET)
          THEN Raise(r, ErrorHere(T, r, "Invalid Unicode escape sequence. Expected only hexadecimal between marks"))
          ELSE LET done == At(q, content_end_index + 1)
               IN IF ~ValidBase16(code_point_str)
                  THEN Raise(done, ValueError)   \* int(code_point_str, base=16)
                  ELSE IF Base16(code_point_str, 0) > MaxCodePoint
                  THEN Raise(done, ValueError)   \* chr(...)
                  ELSE Ok(done, <<chr(Base16(code_point_str, 0))>>, None)

\* Parser._parse_escape_sequence
_parse_escape_sequence(T, p) ==
    IF _peek(T, p) # ESCAPE_CHARACTER
    THEN Raise(p, ErrorHere(T, p, "Invalid escape sequence. Expected escape character"))
    ELSE LET q == _advance(p)
             c == _peek(T, q)
         IN IF c \in SimpleEscapeKeys
            THEN Ok(_advance(q), <<SIMPLE_ESCAPE_EVALUATION(c)>>, None)
            ELSE IF c = UNICODE_ESCAPE_KEY
            THEN Self("_parse_unicode_escape_content", T, q, <<>>)
            ELSE Raise(q, ErrorAt(T, q, "Invalid escape sequence. No escape sequence has this character",
                                  SYNTAX, q.index - 1, q.index + 1))

RECURSIVE QuoteLoop(_, _, _, _)
\* the `while True` loop of Parser._parse_quote; pieces is "".join(pieces)
QuoteLoop(T, p, quote_mark, pieces) ==
    LET restricted_symbols == RESTRICTED_QUOTE_SYMBOLS \cup {quote_mark}
        piece_start_index == p.index
        q == IF _peek(T, p) \notin restricted_symbols
             THEN At(p, NextWhileNotIn(T, p.index, restricted_symbols))
             ELSE p
        joined == pieces \o _get_range(T, piece_start_index, q.index)
        c == _peek(T, q)
    IN IF c = quote_mark
       THEN Ok(_advance(q), joined, None)
       ELSE IF c = ESCAPE_CHARACTER
       THEN LET e == Self("_parse_escape_sequence", T, q, <<>>)
            IN IF e.st = "raise" THEN e
               ELSE QuoteLoop(T, e.p, quote_mark, joined \o e.val)
       ELSE IF c = EMPTY
       THEN Raise(q, ErrorHere(T, q, "Reached end of file without finding quote mark to end quote."))
       ELSE Raise(q, ErrorHere(T, q, "Invalid quote. Found disallowed symbol"))

\* Parser._parse_quote
_parse_quote(T, p) ==
    LET quote_mark == _peek(T, p)
    IN IF quote_mark \notin QUOTE_MARK_SET
       THEN Raise(p, ErrorHere(T, p, "Expected a quote mark (single or double) to start quote"))
       ELSE LET start_index == p.index
                r == QuoteLoop(T, _advance(p), quote_mark, <<>>)
            IN IF r.st = "raise" THEN r
               ELSE Ok(r.p, StrV(r.val),
                       ParseSnapshot(start_index, r.p.index, r.p.line_start,
                                     r.p.line_num, SledType_STRING))

(***************************************************************************)
(* Floats.  float(s) for a decimal literal s is modelled by the decimal    *)
(* normal form of the literal: the value is 0.d1d2...dn * 10^exp with      *)
(* d1 # 0 and dn # 0 (no digits for zero).  Two literals of at most 15     *)
(* significant digits denote the same double exactly when their normal     *)
(* forms agree.                                                            *)
(***************************************************************************)
\* the first digits of 2^1024 - 2^970, the least value float() rounds to inf,
\* written 0.17976931348623158079 * 10^309
FloatOverflowDigits == <<1, 7, 9, 7, 6, 9, 3, 1, 3, 4, 8, 6, 2, 3, 1, 5, 8, 0, 7, 9>>
FloatOverflowExp == 309
\* below 0.d * 10^FloatUnderflowExp float() gives 0.0
FloatUnderflowExp == -323
\* exponents are capped here: anything beyond overflows or underflows alike
ExpCap == 99999

RECURSIVE FracLess(_, _)
\* 0.a < 0.b for digit sequences
FracLess(a, b) ==
    IF b = <<>> THEN FALSE
    ELSE IF a = <<>> THEN TRUE
    ELSE IF Head(a) # Head(b) THEN Head(a) < Head(b)
    ELSE FracLess(Tail(a), Tail(b))

RECURSIVE StripTrailingZeros(_)
StripTrailingZeros(ds) ==
    IF ds # <<>> /\ ds[Len(ds)] = 0
    THEN StripTrailingZeros(SubSeq(ds, 1, Len(ds) - 1)) ELSE ds

RECURSIVE CountLeadingZeros(_)
CountLeadingZeros(ds) ==
    IF ds # <<>> /\ Head(ds) = 0 THEN 1 + CountLeadingZeros(Tail(ds)) ELSE 0

RECURSIVE DecimalValue(_, _)
\* the value of a digit sequence, capped at ExpCap
DecimalValue(ds, acc) ==
    IF ds = <<>> THEN acc
    ELSE LET v == acc * 10 + Head(ds)
         IN DecimalValue(Tail(ds), IF v > ExpCap THEN ExpCap ELSE v)

DigitValues(s) == [i \in 1..Len(s) |-> DigitValue(s[i])]

FiniteFloat(neg, digits, exp) ==
    FloatV([neg |-> neg /\ digits # <<>>, digits |-> digits,
            exp |-> IF digits = <<>> THEN 0 ELSE exp])

\* float(s), s == sign? digits* ("." digits*)? (("e"|"E") sign? digits+)?
PyFloat(s) ==
    LET neg == s # <<>> /\ Head(s) = "-"
        unsigned == IF s # <<>> /\ Head(s) \in SIGN_SET THEN Tail(s) ELSE s
        epos == LET hits == {i \in 1..Len(unsigned) : unsigned[i] \in EXPONENT_PREFIX_SET}
                IN IF hits = {} THEN Len(unsigned) + 1 ELSE CHOOSE i \in hits : TRUE
        coefficient == SubSeq(unsigned, 1, epos - 1)
        exponent_part == SubSeq(unsigned, epos + 1, Len(unsigned))
        exp_neg == exponent_part # <<>> /\ Head(exponent_part) = "-"
        exp_digits == IF exponent_part # <<>> /\ Head(exponent_part) \in SIGN_SET
                      THEN Tail(exponent_part) ELSE exponent_part
        exp_abs == DecimalValue(DigitValues(exp_digits), 0)
        exponent == IF exp_neg THEN 0 - exp_abs ELSE exp_abs
        ppos == LET hits == {i \in 1..Len(coefficient) : coefficient[i] = DEFAULT_DECIMAL_MARK}
                IN IF hits = {} THEN Len(coefficient) + 1 ELSE CHOOSE i \in hits : TRUE
        integral == DigitValues(SubSeq(coefficient, 1, ppos - 1))
        mantissa == DigitValues(SubSeq(coefficient, ppos + 1, Len(coefficient)))
        all == integral \o mantissa
        k == CountLeadingZeros(all)
        digits == StripTrailingZeros(SubSeq(all, k + 1, Len(all)))
        exp == Len(integral) - k + exponent
    IN IF digits = <<>> \/ exp < FloatUnderflowExp THEN FiniteFloat(neg, <<>>, 0)
       ELSE IF exp > FloatOverflowExp
               \/ (exp = FloatOverflowExp /\ ~FracLess(digits, FloatOverflowDigits))
       THEN (IF neg THEN NINF ELSE INF)
       ELSE FiniteFloat(neg, digits, exp)

isinf(x) == x \in {INF, NINF}
isnan(x) == x = NAN

(***************************************************************************)
(* Number types.                                                           *)
(***************************************************************************)
remove_digit_separator(s) == SelectSeq(s, LAMBDA c : c # DIGIT_SEPARATOR)

\* Parser._parse_optional_sign: val is the sign string
_parse_optional_sign(T, p) ==
    LET q == IF _peek(T, p) = DIGIT_SEPARATOR
             THEN At(p, NextWhileIn(T, p.index, {DIGIT_SEPARATOR}))
             ELSE p
        c == _peek(T, q)
    IN IF c \in SIGN_SET THEN Ok(_advance(q), <<c>>, None) ELSE Ok(q, <<>>, None)

\* Parser._consume_optional_digits
_consume_optional_digits(T, p) ==
    LET q == IF _peek(T, p) \in OPTIONAL_DIGIT_SET
             THEN At(p, NextWhileIn(T, p.index, OPTIONAL_DIGIT_SET))
             ELSE p
    IN Ok(q, _get_range(T, p.index, q.index), None)

\* Parser._consume_exponent
_consume_exponent(T, p) ==
    LET exponent_prefix == _peek(T, p)
    IN IF exponent_prefix \notin EXPONENT_PREFIX_SET
       THEN Raise(p, ErrorHere(T, p, "Invalid exponent. Must start with 'e' or 'E'"))
       ELSE LET sign == Self("_parse_optional_sign", T, _advance(p), <<>>)
                digits == Self("_consume_optional_digits", T, sign.p, <<>>)
                exponent_digit_str == remove_digit_separator(digits.val)
            IN IF Len(exponent_digit_str) > 0
               THEN Ok(digits.p, <<exponent_prefix>> \o sign.val \o exponent_digit_str, None)
               ELSE Raise(digits.p, ErrorHere(T, digits.p,
                          "Invalid exponent. Expected at least 1 digit in the exponent"))

\* Parser._evaluate_float_excl_keyword: float(s) never raises on the strings
\* _parse_number_excl_keyword builds (at least one digit, a well-formed exponent)
_evaluate_float_excl_keyword(T, p, s, parse_snapshot) ==
    LET evaluation == PyFloat(s)
    IN IF isinf(evaluation) \/ isnan(evaluation)
       THEN Raise(p, _make_invalid_sled_error(T,
                "Invalid float. Expected a non-keyword value", NUMBER_RANGE,
                parse_snapshot.start_index, parse_snapshot.end_index,
                parse_snapshot.line_start, parse_snapshot.line_num))
       ELSE Ok(p, evaluation, parse_snapshot)

\* the range check of an evaluated integer literal
IntegerOutOfRange(evaluation) ==
    IntLess(evaluation, SLED_INTEGER_MIN) \/ IntLess(SLED_INTEGER_MAX, evaluation)

\* Parser._parse_number_excl_keyword
_parse_number_excl_keyword(T, p) ==
    LET start_index == p.index
        sign == Self("_parse_optional_sign", T, p, <<>>)
        sign_str == sign.val
        coefficient_start_index == sign.p.index
        integral == Self("_consume_optional_digits", T, sign.p, <<>>)
        standardized_integral_str == remove_digit_separator(integral.val)
        q == integral.p
        c == _peek(T, q)
    IN IF c \notin DECIMAL_MARK_SET
       THEN IF Len(standardized_integral_str) = 0
            THEN Raise(q, ErrorAt(T, q, "Invalid number. Expected at least 1 digit excluding any exponent.",
                                  SYNTAX, coefficient_start_index, q.index))
            ELSE IF c \in EXPONENT_PREFIX_SET
            THEN LET e == Self("_consume_exponent", T, q, <<>>)
                 IN IF e.st = "raise" THEN e
                    ELSE Self("_evaluate_float_excl_keyword", T, e.p, <<sign_str \o standardized_integral_str \o e.val, ParseSnapshot(start_index, e.p.index, e.p.line_start,
                                           e.p.line_num, SledType_FLOAT)>>)
            ELSE LET parse_snapshot == ParseSnapshot(start_index, q.index, q.line_start,
                                                     q.line_num, SledType_INTEGER)
                     evaluation == PyInt(sign_str \o standardized_integral_str)
                 IN IF IntegerOutOfRange(evaluation)
                    THEN Raise(q, ErrorAt(T, q, "Invalid integer. Does not fall within allowed values",
                                          NUMBER_RANGE, start_index, q.index))
                    ELSE Ok(q, IntV(evaluation), parse_snapshot)
       ELSE
       LET mantissa == Self("_consume_optional_digits", T, _advance(q), <<>>)
           standardized_mantissa_str == remove_digit_separator(mantissa.val)
           m == mantissa.p
       IN IF Len(standardized_integral_str) = 0 /\ Len(standardized_mantissa_str) = 0
          THEN Raise(m, ErrorAt(T, m, "Invalid number. Expected at least 1 digit excluding any exponent.",
                                SYNTAX, coefficient_start_index, m.index))
          ELSE LET e == IF _peek(T, m) \in EXPONENT_PREFIX_SET
                        THEN Self("_consume_exponent", T, m, <<>>)
                        ELSE Ok(m, <<>>, None)
               IN IF e.st = "raise" THEN e
                  ELSE Self("_evaluate_float_excl_keyword", T, e.p, <<sign_str \o standardized_integral_str \o <<DEFAULT_DECIMAL_MARK>>
                               \o standardized_mantissa_str \o e.val, ParseSnapshot(start_index, e.p.index, e.p.line_start,
                                         e.p.line_num, SledType_FLOAT)>>)

(***************************************************************************)
(* Keywords: keyword literals, hex, concat.                                *)
(***************************************************************************)
\* KEYWORD_LITERALS (_keyword_literal.py): name -> KeywordLiteralSpec
KeywordLiteralNames ==
    {Chars("nan"), Chars("inf"), Chars("ninf"), Chars("true"), Chars("false"), Chars("nil")}

KeywordLiteralEvaluation(name) ==
    CASE name = Chars("nan") -> NAN
      [] name = Chars("inf") -> INF
      [] name = Chars("ninf") -> NINF
      [] name = Chars("true") -> BoolV(TRUE)
      [] name = Chars("false") -> BoolV(FALSE)
      [] name = Chars("nil") -> NilV

\* KeywordLiteralSpec.lexeme
Lexeme(name) == <<KEYWORD_MARK>> \o name

\* Parser._parse_keyword_name
_parse_keyword_name(T, p) ==
    LET start_index == p.index
        q == IF _peek(T, p) \in KEYWORD_CHAR_SET
             THEN At(p, NextWhileIn(T, p.index, KEYWORD_CHAR_SET))
             ELSE p
    IN Ok(q, _get_range(T, start_index, q.index),
          ParseSnapshot(start_index, q.index, q.line_start, q.line_num, SledType_None))

\* bytes.fromhex(s): ASCII whitespace is skipped, anything else that is not
\* a pair of hex digits raises ValueError
FromHexValid(s) ==
    LET digits == SelectSeq(s, LAMBDA c : c \notin {" ", "\t", "\n", "\r", "\f"})
    IN /\ \A i \in 1..Len(digits) : digits[i] \in HexDigits
       /\ Len(digits) % 2 = 0

FromHex(s) ==
    LET digits == SelectSeq(s, LAMBDA c : c \notin {" ", "\t", "\n", "\r", "\f"})
    IN [i \in 1..(Len(digits) \div 2) |->
           16 * HexDigitValue(digits[2 * i - 1]) + HexDigitValue(digits[2 * i])]

\* "Filter for only hex digits": every character of the content that is not
\* in HEX_DIGIT_SET is removed
FilterHexDigits(content_str) == SelectSeq(content_str, LAMBDA c : c \in HEX_DIGIT_SET)

\* Parser._parse_hex_content
\* _parse_hex_content that leaves the cursor on the open mark before the
\* content
_parse_hex_content_rewound(T, p) ==
    LET hex_close_index == find(T, HEX_CLOSE_MARK, p.index, Len(T))
    IN IF hex_close_index = -1
       THEN Raise(p, ErrorHere(T, p, "Invalid hex. Reached end of input without finding close mark"))
       ELSE Ok(At(p, p.index - 1),
               BytesV(FromHex(FilterHexDigits(_get_range(T, p.index, hex_close_index)))), None)

_parse_hex_content(T, p) ==
    LET content_start_index == p.index
        hex_close_index == find(T, HEX_CLOSE_MARK, content_start_index, Len(T))
        \* "Report first point of failure"
        r == At(p, NextWhileIn(T, p.index, HEX_CHAR_SET))
        content_str == _get_range(T, content_start_index, hex_close_index)
        filtered == FilterHexDigits(content_str)
    IN IF hex_close_index = -1
       THEN IF r.index > Len(T) THEN Raise(r, IndexError)
            ELSE IF _is_at_end(T, r)
            THEN Raise(r, ErrorHere(T, r, "Invalid hex. Reached end of input without finding close mark"))
            ELSE Raise(r, ErrorHere(T, r, "Invalid hex. Expected only hexadecimal and ws"))
       ELSE IF ~(\A i \in 1..Len(content_str) : content_str[i] \in HEX_CHAR_SET)
       THEN Raise(r, ErrorHere(T, r, "Invalid hex. Expected only hexadecimal and ws"))
       ELSE IF Len(filtered) % 2 # 0
       THEN Raise(p, ErrorAt(T, p, "Invalid hex. Expected an even number of hexadecimal digits",
                             SYNTAX, p.index, hex_close_index))
       ELSE IF ~FromHexValid(filtered)
       THEN Raise(At(p, hex_close_index), ValueError)
       ELSE Ok(At(p, hex_close_index), BytesV(FromHex(filtered)), None)

RECURSIVE ConcatLoop(_, _, _)
\* the `while True` loop of Parser._parse_concat_content
ConcatLoop(T, p, content) ==
    IF _peek(T, p) \notin QUOTE_MARK_SET
    THEN Raise(p, ErrorHere(T, p, "Expected either a quote mark to start a quote, or close mark to end the concat"))
    ELSE LET quote == Self("_parse_quote", T, p, <<>>)
         IN IF quote.st = "raise" THEN quote
            ELSE LET ws == Self("_consume_optional_ws_or_delimiters", T, quote.p, <<>>)
                 IN IF ws.st = "raise" THEN ws
                    ELSE IF _peek(T, ws.p) = CONCAT_CLOSE_MARK
                    THEN Ok(ws.p, content \o quote.val.s, None)
                    ELSE IF isdisjoint(DELIMITER_SET, ws.val)
                    THEN Raise(ws.p, ErrorHere(T, ws.p,
                               "Expected either close mark to end the concat, or a delimiter before the next segment"))
                    ELSE ConcatLoop(T, ws.p, content \o quote.val.s)

\* Parser._parse_concat_content
_parse_concat_content(T, p) ==
    LET ws == Self("_consume_optional_ws_or_delimiters", T, p, <<>>)
    IN IF ws.st = "raise" THEN ws
       ELSE IF _peek(T, ws.p) = CONCAT_CLOSE_MARK THEN Ok(ws.p, <<>>, None)
       ELSE ConcatLoop(T, ws.p, <<>>)

\* Parser._handle_concat_after_keyword
_handle_concat_after_keyword(T, p, keyword_snapshot) ==
    LET ws == Self("_consume_optional_ws", T, p, <<>>)
    IN IF ws.st = "raise" THEN ws
       ELSE IF _peek(T, ws.p) # CONCAT_OPEN_MARK
       THEN Raise(ws.p, ErrorHere(T, ws.p, "Expected open mark to start concat"))
       ELSE LET content == Self("_parse_concat_content", T, _advance(ws.p), <<>>)
            IN IF content.st = "raise" THEN content
               ELSE IF _peek(T, content.p) = CONCAT_CLOSE_MARK
               THEN LET q == _advance(content.p)
                    IN Ok(q, StrV(content.val),
                          ParseSnapshot(keyword_snapshot.start_index, q.index,
                                        keyword_snapshot.line_start,
                                        keyword_snapshot.line_num, SledType_STRING))
               ELSE Raise(content.p, ErrorHere(T, content.p, "Expected close mark to end concat"))

\* Parser._parse_keyword
_parse_keyword(T, p) ==
    IF _peek(T, p) # KEYWORD_MARK
    THEN Raise(p, ErrorHere(T, p, "Invalid keyword. Expected keyword to be prefixed by keyword mark"))
    ELSE
    LET start_index == p.index
        name == Self("_parse_keyword_name", T, _advance(p), <<>>)
        keyword_name == name.val
        keyword_snapshot == name.snap
    IN IF keyword_name \in KeywordLiteralNames
       THEN Ok(name.p, KeywordLiteralEvaluation(keyword_name), keyword_snapshot)
       ELSE IF keyword_name = HEX_KEYWORD_NAME
       THEN LET ws == Self("_consume_optional_ws", T, name.p, <<>>)
            IN IF ws.st = "raise" THEN ws
               ELSE IF _peek(T, ws.p) # HEX_OPEN_MARK
               THEN Raise(ws.p, ErrorHere(T, ws.p, "Expected open mark to start hex"))
               ELSE LET content == Self("_parse_hex_content", T, _advance(ws.p), <<>>)
                    IN IF content.st = "raise" THEN content
                       ELSE IF _peek(T, content.p) = HEX_CLOSE_MARK
                       THEN LET q == _advance(content.p)
                            IN Ok(q, content.val,
                                  ParseSnapshot(keyword_snapshot.start_index, q.index,
                                                keyword_snapshot.line_start,
                                                keyword_snapshot.line_num, SledType_HEX))
                       ELSE Raise(content.p, ErrorHere(T, content.p, "Expected close mark to end hex"))
       ELSE IF keyword_name = CONCAT_KEYWORD_NAME
       THEN Self("_handle_concat_after_keyword", T, name.p, <<keyword_snapshot>>)
       ELSE Raise(name.p, ErrorAt(T, name.p, "Invalid keyword", SYNTAX, start_index, name.p.index))

(***************************************************************************)
(* Map keys.                                                               *)
(***************************************************************************)
\* The attributes a Parser instance has (set in __init__).
ParserAttributes == {"_text", "_index", "_line_num", "_line_start", "_evaluation"}

\* Python's (str == frozenset): values of different types are never equal
StrEqualsFrozenset(c, S) == FALSE

\* The non-concat-keyword error that _parse_map_key and _parse_string build
\* and do not raise: building it can itself raise ValueError.
BuiltNotRaised(T, p, reason, start_index) ==
    _make_invalid_sled_error(T, reason, SYNTAX, start_index, p.index,
                             p.line_start, p.line_num)

\* Parser._parse_map_key
_parse_map_key(T, p) ==
    LET start_index == p.index
        c == _peek(T, p)
    IN IF c = KEYWORD_MARK
       THEN LET name == Self("_parse_keyword_name", T, _advance(p), <<>>)
            IN IF name.val # CONCAT_KEYWORD_NAME
                  /\ BuiltNotRaised(T, name.p, "Expected a map key, but got a non-concat keyword",
                                    start_index) = ValueError
               THEN Raise(name.p, ValueError)
               ELSE Self("_handle_concat_after_keyword", T, name.p, <<name.snap>>)
       ELSE IF c \in NUMBER_START_SET THEN Self("_parse_number_excl_keyword", T, p, <<>>)
       ELSE IF c \in QUOTE_MARK_SET THEN Self("_parse_quote", T, p, <<>>)
       ELSE IF c \notin IDENTITY_DISALLOWED_START_SYMBOLS THEN Self("_parse_identity", T, p, <<>>)
       ELSE Raise(p, ErrorHere(T, p, "Invalid map key. No map key starts with"))

\* Parser._parse_string
_parse_string(T, p) ==
    LET start_index == p.index
        c == _peek(T, p)
    IN IF c = KEYWORD_MARK
       THEN LET name == Self("_parse_keyword_name", T, _advance(p), <<>>)
            IN IF name.val # CONCAT_KEYWORD_NAME
                  /\ BuiltNotRaised(T, name.p, "Expected a string, but got a non-concat keyword",
                                    start_index) = ValueError
               THEN Raise(name.p, ValueError)
               ELSE Self("_handle_concat_after_keyword", T, name.p, <<name.snap>>)
       ELSE IF c \in QUOTE_MARK_SET THEN Self("_parse_quote", T, p, <<>>)
       ELSE IF c \notin IDENTITY_DISALLOWED_START_SYMBOLS THEN Self("_parse_identity", T, p, <<>>)
       ELSE Raise(p, ErrorHere(T, p, "Invalid string. No string starts with"))

\* Parser._parse_integer: its first statement reads self._start_index
_parse_integer(T, p) ==
    IF "_start_index" \notin ParserAttributes
    THEN Raise(p, AttributeError)
    ELSE LET start_index == p.index
             r == Self("_parse_number_excl_keyword", T, p, <<>>)
         IN IF r.st = "raise" THEN r
            ELSE IF r.snap.sled_type = SledType_INTEGER THEN r
            ELSE Raise(r.p, ErrorAt(T, r.p, "Expected an integer", SYNTAX,
                                    start_index, r.p.index))

\* Parser._handle_map_first_key: the result's func is key_parse_func
_handle_map_first_key(T, p, key_type) ==
    IF key_type = SledType_None
    THEN LET r == Self("_parse_map_key", T, p, <<>>)
         IN IF r.st = "raise" THEN r
            ELSE IF r.snap.sled_type = SledType_STRING
            THEN r @@ [func |-> "_parse_string"]
            ELSE IF r.snap.sled_type = SledType_INTEGER
            THEN r @@ [func |-> "_parse_integer"]
            ELSE Raise(r.p, _make_invalid_sled_error(T,
                     "Expected map key to be either a string or integer", MAP_KEY_TYPE,
                     r.snap.start_index, r.snap.end_index,
                     r.snap.line_start, r.snap.line_num))
    ELSE IF key_type = SledType_STRING
    THEN LET r == Self("_parse_string", T, p, <<>>)
         IN IF r.st = "raise" THEN r ELSE r @@ [func |-> "_parse_string"]
    ELSE IF key_type = SledType_INTEGER
    THEN LET r == Self("_parse_integer", T, p, <<>>)
         IN IF r.st = "raise" THEN r ELSE r @@ [func |-> "_parse_integer"]
    ELSE Raise(p, ValueError)

\* SledError.make_duplicate_map_key_error: one error naming, for every key
\* that occurs more than once, each occurrence's line and in-line index
make_duplicate_map_key_error(data, start_line_num, start_index_within_line) ==
    LET n == Len(data)
        indices == [i \in 1..n |-> i]
        occ(k) == SelectSeq(indices, LAMBDA i : data[i].key = k)
        firsts == SelectSeq(indices, LAMBDA i : occ(data[i].key)[1] = i
                                                /\ Len(occ(data[i].key)) > 1)
        dup_dict == [g \in 1..Len(firsts) |->
                       LET snapshots == occ(data[firsts[g]].key)
                       IN [key |-> data[firsts[g]].key,
                           reps |-> [j \in 1..Len(snapshots) |->
                               [line_num |-> data[snapshots[j]].snap.line_num,
                                index |-> data[snapshots[j]].snap.start_index
                                          - data[snapshots[j]].snap.line_start]]]]
    IN SledError(DUPLICATE_MAP_KEY, "Sled map contains duplicate keys.",
                 start_line_num, dup_dict)

HasDuplicateKey(data) ==
    \E i, j \in 1..Len(data) : i < j /\ data[i].key = data[j].key

(***************************************************************************)
(* Container types: entity, map, list.                                     *)
(***************************************************************************)
RECURSIVE MapLoop(_, _, _, _)
RECURSIVE ListLoop(_, _, _)

\* Parser._parse_map_pair_after_key
_parse_map_pair_after_key(T, p) ==
    LET ws == Self("_consume_optional_ws", T, p, <<>>)
    IN IF ws.st = "raise" THEN ws
       ELSE IF _peek(T, ws.p) # KEY_VALUE_SEPARATOR
       THEN Raise(ws.p, ErrorHere(T, ws.p, "Expected key-value separator between key and value"))
       ELSE LET ws2 == Self("_consume_optional_ws", T, _advance(ws.p), <<>>)
            IN IF ws2.st = "raise" THEN ws2 ELSE Self("_parse_entity", T, ws2.p, <<>>)

\* Parser._parse_entity
_parse_entity(T, p) ==
    LET c == _peek(T, p)
    IN IF c = MAP_OPEN_MARK
       THEN LET content == Self("_parse_map_content", T, _advance(p), <<SledType_None>>)
            IN IF content.st = "raise" THEN content
               ELSE IF _peek(T, content.p) = MAP_CLOSE_MARK
               THEN Ok(_advance(content.p), content.val, None)
               ELSE Raise(content.p, ErrorHere(T, content.p, "Expected close mark to end map"))
       ELSE IF c = LIST_OPEN_MARK
       THEN LET content == Self("_parse_list_content", T, _advance(p), <<>>)
            IN IF content.st = "raise" THEN content
               ELSE IF _peek(T, content.p) = LIST_CLOSE_MARK
               THEN Ok(_advance(content.p), content.val, None)
               ELSE Raise(content.p, ErrorHere(T, content.p, "Expected close mark to end list"))
       ELSE IF c = KEYWORD_MARK THEN Self("_parse_keyword", T, p, <<>>)
       ELSE IF StrEqualsFrozenset(c, NUMBER_START_SET) THEN Self("_parse_number_excl_keyword", T, p, <<>>)
       ELSE IF c \in QUOTE_MARK_SET THEN Self("_parse_quote", T, p, <<>>)
       ELSE IF c \notin IDENTITY_DISALLOWED_START_SYMBOLS THEN Self("_parse_identity", T, p, <<>>)
       ELSE Raise(p, ErrorHere(T, p, "Invalid entity. No entity starts with"))

\* one (key, key_snapshot, value) element of `data`
Datum(key, snap, value) == [key |-> key, snap |-> snap, value |-> value]

\* "Collect remaining map pairs": the `while True` loop of _parse_map_content
MapLoop(T, p, key_parse_func, data) ==
    LET ws == Self("_consume_optional_ws_or_delimiters", T, p, <<>>)
    IN IF ws.st = "raise" THEN ws
       ELSE LET c == _peek(T, ws.p)
            IN IF c = MAP_CLOSE_MARK \/ c = EMPTY THEN Ok(ws.p, data, None)
               ELSE IF isdisjoint(DELIMITER_SET, ws.val)
               THEN Raise(ws.p, ErrorHere(T, ws.p,
                          "Expected either the end of the map, or a delimiter before the next key-value pair"))
               ELSE LET k == Self(key_parse_func, T, ws.p, <<>>)
                    IN IF k.st = "raise" THEN k
                       ELSE LET v == Self("_parse_map_pair_after_key", T, k.p, <<>>)
                            IN IF v.st = "raise" THEN v
                               ELSE MapLoop(T, v.p, key_parse_func,
                                            Append(data, Datum(k.val, k.snap, v.val)))

\* Parser._parse_map_content
_parse_map_content(T, p, key_type) ==
    LET start_index_within_line == p.index - p.line_start
        start_line_num == p.line_num
        ws == Self("_consume_optional_ws_or_delimiters", T, p, <<>>)
    IN IF ws.st = "raise" THEN ws
       ELSE IF _peek(T, ws.p) = MAP_CLOSE_MARK \/ _peek(T, ws.p) = EMPTY
       THEN Ok(ws.p, DictV(<<>>), None)
       ELSE LET k == Self("_handle_map_first_key", T, ws.p, <<key_type>>)
            IN IF k.st = "raise" THEN k
               ELSE LET v == Self("_parse_map_pair_after_key", T, k.p, <<>>)
                    IN IF v.st = "raise" THEN v
                       ELSE LET rest == MapLoop(T, v.p, k.func,
                                                <<Datum(k.val, k.snap, v.val)>>)
                            IN IF rest.st = "raise" THEN rest
                               ELSE IF HasDuplicateKey(rest.val)
                               THEN Raise(rest.p, make_duplicate_map_key_error(
                                        rest.val, start_line_num, start_index_within_line))
                               ELSE Ok(rest.p,
                                       DictV([i \in 1..Len(rest.val) |->
                                                <<rest.val[i].key, rest.val[i].value>>]),
                                       None)

\* the `while True` loop of Parser._parse_list_content
ListLoop(T, p, content) ==
    LET e == Self("_parse_entity", T, p, <<>>)
    IN IF e.st = "raise" THEN e
       ELSE LET ws == Self("_consume_optional_ws_or_delimiters", T, e.p, <<>>)
            IN IF ws.st = "raise" THEN ws
               ELSE IF _peek(T, ws.p) = LIST_CLOSE_MARK
               THEN Ok(ws.p, ListV(Append(content, e.val)), None)
               ELSE IF isdisjoint(DELIMITER_SET, ws.val)
               THEN Raise(ws.p, ErrorHere(T, ws.p,
                          "Expected either close mark to end the list, or a delimiter before the next entity"))
               ELSE ListLoop(T, ws.p, Append(content, e.val))

\* Parser._parse_list_content
_parse_list_content(T, p) ==
    LET ws == Self("_consume_optional_ws_or_delimiters", T, p, <<>>)
    IN IF ws.st = "raise" THEN ws
       ELSE IF _peek(T, ws.p) = LIST_CLOSE_MARK THEN Ok(ws.p, ListV(<<>>), None)
       ELSE ListLoop(T, ws.p, <<>>)

\* Parser._parse_document
\* _parse_document without its test for the end of the text
_parse_document_unended(T, p) ==
    LET has_top_level_braces == _peek(T, p) = MAP_OPEN_MARK
        evaluation == Self("_parse_map_content", T, IF has_top_level_braces THEN _advance(p) ELSE p, <<SledType_STRING>>)
    IN IF _peek(T, p) = INDEX_ERROR THEN Raise(p, IndexError)
       ELSE IF evaluation.st = "raise" THEN evaluation
       ELSE LET ws == Self("_consume_optional_ws_or_delimiters", T, evaluation.p, <<>>)
            IN IF ws.st = "raise" THEN ws
               ELSE IF has_top_level_braces /\ _peek(T, ws.p) # MAP_CLOSE_MARK
               THEN Raise(ws.p, ErrorHere(T, ws.p, "Expected close mark to end top-level map"))
               ELSE Ok(IF has_top_level_braces THEN _advance(ws.p) ELSE ws.p, evaluation.val, None)

_parse_document(T, p) ==
    LET has_top_level_braces == _peek(T, p) = MAP_OPEN_MARK
        evaluation == Self("_parse_map_content", T, IF has_top_level_braces THEN _advance(p) ELSE p, <<SledType_STRING>>)
    IN IF _peek(T, p) = INDEX_ERROR THEN Raise(p, IndexError)
       ELSE IF evaluation.st = "raise" THEN evaluation
       ELSE LET ws == Self("_consume_optional_ws_or_delimiters", T, evaluation.p, <<>>)
            IN IF ws.st = "raise" THEN ws
               ELSE IF has_top_level_braces /\ _peek(T, ws.p) # MAP_CLOSE_MARK
               THEN Raise(ws.p, ErrorHere(T, ws.p, "Expected close mark to end top-level map"))
               ELSE LET q == IF has_top_level_braces THEN _advance(ws.p) ELSE ws.p
                    IN IF _is_at_end(T, q) THEN Ok(q, evaluation.val, None)
                       ELSE Raise(q, ErrorHere(T, q, "Sled input did not end where expected."))

\* the methods of Parser, by name
Self(method, T, p, args) ==
    CASE method = "_parse_document" -> _parse_document(T, p)
      [] method = "_consume_optional_ws" -> _consume_optional_ws(T, p)
      [] method = "_consume_optional_ws_or_delimiters" -> _consume_optional_ws_or_delimiters(T, p)
      [] method = "_multi_line_consume_optional" -> _multi_line_consume_optional(T, p, args[1])
      [] method = "_parse_comment" -> _parse_comment(T, p)
      [] method = "_consume_default_line_separators" -> _consume_default_line_separators(T, p)
      [] method = "_parse_entity" -> _parse_entity(T, p)
      [] method = "_parse_map_content" -> _parse_map_content(T, p, args[1])
      [] method = "_handle_map_first_key" -> _handle_map_first_key(T, p, args[1])
      [] method = "_parse_map_pair_after_key" -> _parse_map_pair_after_key(T, p)
      [] method = "_parse_list_content" -> _parse_list_content(T, p)
      [] method = "_parse_map_key" -> _parse_map_key(T, p)
      [] method = "_parse_string" -> _parse_string(T, p)
      [] method = "_parse_integer" -> _parse_integer(T, p)
      [] method = "_parse_keyword" -> _parse_keyword(T, p)
      [] method = "_parse_keyword_name" -> _parse_keyword_name(T, p)
      [] method = "_parse_hex_content" -> _parse_hex_content(T, p)
      [] method = "_handle_concat_after_keyword" -> _handle_concat_after_keyword(T, p, args[1])
      [] method = "_parse_concat_content" -> _parse_concat_content(T, p)
      [] method = "_parse_number_excl_keyword" -> _parse_number_excl_keyword(T, p)
      [] method = "_parse_optional_sign" -> _parse_optional_sign(T, p)
      [] method = "_consume_optional_digits" -> _consume_optional_digits(T, p)
      [] method = "_consume_exponent" -> _consume_exponent(T, p)
      [] method = "_evaluate_float_excl_keyword" -> _evaluate_float_excl_keyword(T, p, args[1], args[2])
      [] method = "_parse_quote" -> _parse_quote(T, p)
      [] method = "_parse_escape_sequence" -> _parse_escape_sequence(T, p)
      [] method = "_parse_unicode_escape_content" -> _parse_unicode_escape_content(T, p)
      [] method = "_parse_identity" -> _parse_identity(T, p)

\* standardize_line_separator: CR LF, then CR, replaced by LF:
\* s.replace(CRLF, LF) drops each CR that stands before a LF, .replace(CR, LF)
\* turns the others into LF
standardize_line_separator(s) ==
    LET BeforeLf(i) == s[i] = CR_LINE_SEPARATOR /\ i < Len(s) /\ s[i + 1] = LF_LINE_SEPARATOR
        kept == SelectSeq([i \in 1..Len(s) |-> i], LAMBDA i : ~BeforeLf(i))
    IN [k \in 1..Len(kept) |->
           IF s[kept[k]] = CR_LINE_SEPARATOR THEN DEFAULT_LINE_SEPARATOR ELSE s[kept[k]]]

(***************************************************************************)
(* Python's text operations the serializers use.                           *)
(***************************************************************************)
RECURSIVE join(_, _)
\* sep.join(parts)
join(sep, parts) ==
    IF parts = <<>> THEN <<>>
    ELSE IF Len(parts) = 1 THEN parts[1]
    ELSE parts[1] \o sep \o join(sep, Tail(parts))

StartsWithAt(s, i, pat) ==
    i + Len(pat) - 1 <= Len(s) /\ SubSeq(s, i, i + Len(pat) - 1) = pat

RECURSIVE SplitFrom(_, _, _, _)
\* s.split(sep) continued at position i with the piece in progress
SplitFrom(s, sep, i, piece) ==
    IF i > Len(s) THEN <<piece>>
    ELSE IF StartsWithAt(s, i, sep)
    THEN <<piece>> \o SplitFrom(s, sep, i + Len(sep), <<>>)
    ELSE SplitFrom(s, sep, i + 1, Append(piece, s[i]))

\* s.split(sep), sep not empty
split(s, sep) == SplitFrom(s, sep, 1, <<>>)

\* s.replace(old, new), old not empty
replace(s, old, new) == join(new, split(s, old))

\* s[start:end] with 0 <= start
Slice(s, start, end) ==
    SubSeq(s, start + 1, IF end < Len(s) THEN end ELSE Len(s))

\* s[::-1]
Reversed(s) == [i \in 1..Len(s) |-> s[Len(s) + 1 - i]]

Repeat(c, k) == [i \in 1..k |-> c]

\* s.rjust(width, " ")
rjust(s, width) == IF Len(s) >= width THEN s ELSE Repeat(" ", width - Len(s)) \o s

\* a % b as Python computes it: the result has the sign of b
PyMod(a, b) == IF b > 0 THEN a % b ELSE 0 - ((0 - a) % (0 - b))

abs(n) == IF n < 0 THEN 0 - n ELSE n

DigitChars(ds) == [i \in 1..Len(ds) |-> DigitChar(ds[i])]

RECURSIVE NatDigits(_)
\* the decimal digits of a natural number
NatDigits(n) == IF n < 10 THEN <<n>> ELSE Append(NatDigits(n \div 10), n % 10)

RECURSIVE GroupFromRight(_, _, _)
\* the "_" option of format(): groups of `size` characters counted from the
\* right, separated by sep
GroupFromRight(cs, size, sep) ==
    IF Len(cs) <= size THEN cs
    ELSE GroupFromRight(SubSeq(cs, 1, Len(cs) - size), size, sep)
         \o <<sep>> \o SubSeq(cs, Len(cs) - size + 1, Len(cs))

\* f"{n:d}" and f"{n:_d}" for an integer n
FormatInteger(n, grouped) ==
    (IF n.neg THEN <<"-">> ELSE <<>>)
    \o (IF grouped THEN GroupFromRight(DigitChars(n.mag), 3, "_") ELSE DigitChars(n.mag))

RECURSIVE NatValue(_, _)
\* the natural number that a sequence of decimal digits denotes
NatValue(ds, acc) == IF ds = <<>> THEN acc ELSE NatValue(Tail(ds), acc * 10 + Head(ds))

\* ord(c)
ord(c) ==
    CASE c = "\t" -> 9 [] c = "\n" -> 10 [] c = "\f" -> 12 [] c = "\r" -> 13
      [] \E i \in 1..Len(AsciiPrintable) : AsciiPrintable[i] = c ->
            31 + (CHOOSE i \in 1..Len(AsciiPrintable) : AsciiPrintable[i] = c)
      [] OTHER -> LET token == Chars(c)
                  IN NatValue(DigitValues(SubSeq(token, 3, Len(token))), 0)

isascii(c) == ord(c) < 128

\* str.isspace for one character
isspace(c) ==
    ord(c) \in {9, 10, 11, 12, 13, 28, 29, 30, 31, 32, 133, 160, 5760, 8232, 8233, 8239,
               8287, 12288} \cup (8192..8202)

UpperHexDigits == Chars("0123456789ABCDEF")
LowerHexDigits == Chars("0123456789abcdef")

RECURSIVE HexOf(_, _)
\* the hex digits of a natural number
HexOf(n, table) ==
    IF n < 16 THEN <<table[n + 1]>> ELSE Append(HexOf(n \div 16, table), table[(n % 16) + 1])

\* f"{n:_X}"
FormatUpperHex(n) == GroupFromRight(HexOf(n, UpperHexDigits), 4, "_")

\* repr(x) and f"{x:_}" for a finite float x: fixed notation while the decimal
\* point lies within -3..16 digits of the first significant digit, else
\* scientific notation with an exponent of two digits or more
FormatFloat(x, grouped) ==
    LET sign == IF x.neg THEN <<"-">> ELSE <<>>
        ds == DigitChars(x.digits)
        n == Len(ds)
        decpt == x.exp
        group(cs) == IF grouped THEN GroupFromRight(cs, 3, "_") ELSE cs
        exponent == NatDigits(abs(decpt - 1))
    IN IF n = 0 THEN sign \o Chars("0.0")
       ELSE IF decpt > 16 \/ decpt < -3
       THEN sign \o <<ds[1]>> \o (IF n > 1 THEN <<".">> \o SubSeq(ds, 2, n) ELSE <<>>)
            \o <<"e", IF decpt - 1 < 0 THEN "-" ELSE "+">>
            \o (IF Len(exponent) < 2 THEN <<"0">> ELSE <<>>) \o DigitChars(exponent)
       ELSE IF decpt <= 0 THEN sign \o Chars("0.") \o Repeat("0", 0 - decpt) \o ds
       ELSE IF decpt >= n THEN sign \o group(ds \o Repeat("0", decpt - n)) \o Chars(".0")
       ELSE sign \o group(SubSeq(ds, 1, decpt)) \o <<".">> \o SubSeq(ds, decpt + 1, n)

HexPair(byte) == <<LowerHexDigits[(byte \div 16) + 1], LowerHexDigits[(byte % 16) + 1]>>

\* bytes.hex(): two lower-case hex digits per byte
hex(b) == join(<<>>, [i \in 1..Len(b) |-> HexPair(b[i])])

\* bytes.hex(sep, bytes_per_sep) with a separator of one character: groups of
\* |bytes_per_sep| bytes counted from the right when bytes_per_sep > 0, from
\* the left when it is negative, no separator when it is 0
hex_sep(b, sep, bytes_per_sep) ==
    LET n == Len(b)
        before(i) == /\ i > 1
                     /\ bytes_per_sep # 0
                     /\ IF bytes_per_sep > 0
                        THEN (n - i + 1) % bytes_per_sep = 0
                        ELSE (i - 1) % (0 - bytes_per_sep) = 0
    IN join(<<>>, [i \in 1..n |-> (IF before(i) THEN sep ELSE <<>>) \o HexPair(b[i])])

(***************************************************************************)
(* The serializers (_serializer_basic.py, _serializer.py,                  *)
(* _serializer_mini.py).  A serializer object is a record of its fields;   *)
(* its class is SledSerializer or SledSerializerMini, both subclasses of   *)
(* SledSerializerBasic.  A method returns Return(text) or Throw(exc).      *)
(***************************************************************************)
Return(val) == [st |-> "ok", val |-> val]
Throw(exc) == [st |-> "raise", exc |-> exc]

\* a call that returned None where it may also return text
ReturnNone == [st |-> "ok", val |-> None, is_none |-> TRUE]
IsNoneReturned(r) == "is_none" \in DOMAIN r

\* self.method(args) on a serializer object: the method of the object's
\* class, found by its name; defined once every method is.
RECURSIVE Ser(_, _, _)

DEFAULT_INDENT == Chars("  ")
DEFAULT_HEX_BYTES_PER_SEPARATOR == -2
DEFAULT_HEX_LINE_LENGTH == 80

\* the keys of SIMPLE_ESCAPE_SEQUENCES
SimpleEscapeValues ==
    {ESCAPE_CHARACTER, DOUBLE_QUOTE_MARK, SINGLE_QUOTE_MARK, "\n", "\r", "\t"}

SIMPLE_ESCAPE_SEQUENCES(c) ==
    <<ESCAPE_CHARACTER,
      CASE c = "\n" -> "n" [] c = "\r" -> "r" [] c = "\t" -> "t" [] OTHER -> c>>

ESCAPE_CHARACTER_ESCAPE == SIMPLE_ESCAPE_SEQUENCES(ESCAPE_CHARACTER)

\* the keys of LINE_SEPARATOR_ESCAPES
LineSeparators == {<<"\n">>, <<"\r">>, <<"\r", "\n">>}

LINE_SEPARATOR_ESCAPES(line_separator) ==
    join(<<>>, [i \in 1..Len(line_separator) |-> SIMPLE_ESCAPE_SEQUENCES(line_separator[i])])

C0_SIMPLE_ESCAPE_SET == {"\n", "\r", "\t"}

\* membership in the full C0_CONTROL_SET: the 32 C0 controls and DEL
InC0ControlSet(c) == ord(c) < 32 \/ ord(c) = 127

\* SledSerializerBasic.__init__
SledSerializerBasic__init__(class, kw) ==
    IF ~({kw.indent[i] : i \in 1..Len(kw.indent)} \subseteq HORIZONTAL_SPACE_SET)
    THEN Throw(ValueError)
    ELSE IF kw.line_separator \notin LineSeparators THEN Throw(ValueError)
    ELSE IF kw.quote_mark \notin SimpleEscapeValues THEN Throw(ValueError)
    ELSE Return([class |-> class,
                 _indent |-> kw.indent,
                 _use_top_level_braces |-> kw.use_top_level_braces,
                 _line_separator |-> kw.line_separator,
                 _line_separator_escape |-> LINE_SEPARATOR_ESCAPES(kw.line_separator),
                 _always_quote |-> kw.always_quote,
                 _ascii_only |-> kw.ascii_only,
                 _quote_mark |-> kw.quote_mark,
                 _quote_mark_escape |-> SIMPLE_ESCAPE_SEQUENCES(kw.quote_mark),
                 _hex_upper_case |-> kw.hex_upper_case,
                 _decimal_mark |-> kw.decimal_mark,
                 _exponent_prefix |-> kw.exponent_prefix])

\* SledSerializer.__init__: when hex_line_length is too short, building the
\* message of the ValueError takes abs() of a string, which raises TypeError
SledSerializer__init__(kw) ==
    LET base == SledSerializerBasic__init__("SledSerializer", kw)
        _hex_horizontal_separator ==
            IF kw.hex_bytes_per_separator = 0 THEN <<>> ELSE kw.hex_horizontal_separator
        _hex_bytes_per_separator ==
            IF kw.hex_horizontal_separator = <<>> THEN 0 ELSE kw.hex_bytes_per_separator
    IN IF base.st = "raise" THEN base
       ELSE IF kw.hex_line_length < abs(_hex_bytes_per_separator) * HEX_DIGITS_PER_BYTE
       THEN Throw(TypeError)
       ELSE Return(base.val @@
                [_break_on_line_separator |-> kw.break_on_line_separator,
                 _hex_horizontal_separator |-> _hex_horizontal_separator,
                 _hex_bytes_per_separator |-> _hex_bytes_per_separator,
                 _hex_line_length |-> kw.hex_line_length,
                 _use_thousands_separator |-> kw.use_thousands_separator])

\* SledSerializerMini.__init__: indent and line_separator keep the defaults
\* of SledSerializerBasic.__init__
SledSerializerMini__init__(kw) ==
    SledSerializerBasic__init__("SledSerializerMini",
        kw @@ [indent |-> DEFAULT_INDENT, line_separator |-> <<DEFAULT_LINE_SEPARATOR>>])

IsMini(self) == self.class = "SledSerializerMini"

RECURSIVE KeyTypeNames(_)
\* the set comprehension `{type(k).__name__ for k, _ in data}` that
\* SledSerializerBasic.to_sled builds for the message of its TypeError: it
\* iterates over the keys of the mapping and unpacks each key into two, which
\* raises ValueError for a str or bytes key of a length other than 2 and
\* TypeError for a key that is no sequence; else the TypeError is raised
KeyTypeNames(pairs) ==
    IF pairs = <<>> THEN Throw(TypeError)
    ELSE LET k == Head(pairs)[1]
         IN CASE k.tag = "str" ->
                   IF Len(k.s) = 2 THEN KeyTypeNames(Tail(pairs)) ELSE Throw(ValueError)
              [] k.tag = "bytes" ->
                   IF Len(k.bytes) = 2 THEN KeyTypeNames(Tail(pairs)) ELSE Throw(ValueError)
              [] OTHER -> Throw(TypeError)

\* SledSerializerBasic.to_sled: obj is a Mapping or not
SledSerializerBasic_to_sled(self, obj) ==
    IF obj.tag = "dict"
    THEN IF \A i \in 1..Len(obj.pairs) : obj.pairs[i][1].tag = "str"
         THEN Ser("to_top_level_smap", self, <<obj>>)
         ELSE KeyTypeNames(obj.pairs)
    ELSE Throw(TypeError)

\* SledSerializerBasic.to_top_level_smap
SledSerializerBasic_to_top_level_smap(self, mapping) ==
    LET r == Ser("to_top_level_smap_str", self, <<mapping>>)
    IN IF r.st = "raise" THEN r ELSE Return(r.val \o <<"\n">>)

\* SledSerializerMini.to_top_level_smap
SledSerializerMini_to_top_level_smap(self, mapping) ==
    Ser("to_top_level_smap_str", self, <<mapping>>)

\* SledSerializerBasic.to_top_level_smap_str
to_top_level_smap_str(self, mapping) ==
    IF self._use_top_level_braces
    THEN LET content == Ser("to_smap_content", self, <<mapping, self._indent>>)
         IN IF content.st = "raise" THEN content
            ELSE Ser("_enclose_map_content", self, <<content.val, <<>> >>)
    ELSE Ser("to_smap_content", self, <<mapping, <<>> >>)

\* SledSerializerBasic._try_base_concrete: None when obj is no base concrete
_try_base_concrete(self, obj, indent) ==
    CASE obj.tag = "nil" -> Return(Lexeme(Chars("nil")))
      [] obj.tag = "bool" -> Ser("to_boolean", self, <<obj.b>>)
      [] obj.tag = "bytes" -> Ser("to_hex", self, <<obj.bytes, indent>>)
      [] obj.tag = "int" -> Ser("to_integer", self, <<obj.n>>)
      [] obj.tag = "float" -> Ser("to_float", self, <<obj.f>>)
      [] obj.tag = "str" -> Ser("to_string", self, <<obj.s, indent>>)
      [] OTHER -> ReturnNone

\* SledSerializerBasic.to_entity
to_entity(self, obj, indent) ==
    LET output == Ser("_try_base_concrete", self, <<obj, indent>>)
    IN IF output.st = "raise" THEN output
       ELSE IF ~IsNoneReturned(output) THEN output
       ELSE IF obj.tag = "dict" THEN Ser("to_map", self, <<obj, indent>>)
       ELSE IF obj.tag = "list" THEN Ser("to_list", self, <<obj.items, indent>>)
       ELSE Throw(TypeError)

\* SledSerializerBasic.to_map
SledSerializerBasic_to_map(self, mapping, indent) ==
    LET nested_indent == indent \o self._indent
        content == Ser("to_map_content", self, <<mapping, nested_indent>>)
    IN IF content.st = "raise" THEN content
       ELSE Ser("_enclose_map_content", self, <<content.val, indent>>)

\* SledSerializerMini.to_map
SledSerializerMini_to_map(self, mapping, indent) ==
    LET content == Ser("to_map_content", self, <<mapping, <<>> >>)
    IN IF content.st = "raise" THEN content
       ELSE Ser("_enclose_map_content", self, <<content.val, <<>> >>)

\* SledSerializerBasic._enclose_map_content
SledSerializerBasic__enclose_map_content(self, content, indent) ==
    LET last_line_separator == self._line_separator \o indent
        line_separator == self._line_separator \o indent \o self._indent
    IN Return(<<MAP_OPEN_MARK>> \o line_separator \o content
              \o last_line_separator \o <<MAP_CLOSE_MARK>>)

\* SledSerializerMini._enclose_map_content
SledSerializerMini__enclose_map_content(self, content, indent) ==
    Return(<<MAP_OPEN_MARK>> \o content \o <<MAP_CLOSE_MARK>>)

\* SledSerializerBasic._validate_distinct_map_keys
_validate_distinct_map_keys(self, keys) ==
    IF \E i, j \in 1..Len(keys) : i < j /\ keys[i] = keys[j]
    THEN Throw(ValueError) ELSE Return(None)

\* to_map_content that drops the pairs of a mixed map whose key is no string
to_map_content_lenient(self, mapping, indent) ==
    LET data == mapping.pairs
        keys == [i \in 1..Len(data) |-> data[i][1]]
        stringKeyed(pair) == pair[1].tag = "str"
    IN IF \A i \in 1..Len(data) : keys[i].tag \in {"int", "bool"}
       THEN Ser("to_imap_content", self, <<mapping, indent>>)
       ELSE Ser("to_smap_content", self, <<DictV(SelectSeq(data, stringKeyed)), indent>>)

\* SledSerializerBasic.to_map_content
to_map_content(self, mapping, indent) ==
    LET data == mapping.pairs
        keys == [i \in 1..Len(data) |-> data[i][1]]
        distinct == Ser("_validate_distinct_map_keys", self, <<keys>>)
    IN IF \A i \in 1..Len(data) : keys[i].tag = "str"
       THEN IF distinct.st = "raise" THEN distinct
            ELSE Ser("to_smap_content", self, <<mapping, indent>>)
       ELSE IF \A i \in 1..Len(data) : keys[i].tag \in {"int", "bool"}
       THEN IF distinct.st = "raise" THEN distinct
            ELSE Ser("to_imap_content", self, <<mapping, indent>>)
       ELSE Throw(TypeError)

RECURSIVE JoinEach(_, _, _, _, _)
\* "".join(f"{separator}{self.method(item, indent)}" for item in items) from
\* the i-th item on: the items are serialized in order and the first
\* exception ends the call
JoinEach(self, method, items, indent, separator) ==
    IF items = <<>> THEN Return(<<>>)
    ELSE LET first == Ser(method, self, <<Head(items), indent>>)
             rest == JoinEach(self, method, Tail(items), indent, separator)
         IN IF first.st = "raise" THEN first
            ELSE IF rest.st = "raise" THEN rest
            ELSE Return(separator \o first.val \o rest.val)

\* separator.join(self.method(item, indent) for item in items)
JoinBetween(self, method, items, indent, separator) ==
    LET r == JoinEach(self, method, items, indent, separator)
    IN IF r.st = "raise" \/ items = <<>> THEN r
       ELSE Return(SubSeq(r.val, Len(separator) + 1, Len(r.val)))

\* the int that a key of an imap is: a bool is an int in Python
int(k) == IF k.tag = "bool" THEN [neg |-> FALSE, mag |-> <<IF k.b THEN 1 ELSE 0>>] ELSE k.n

\* one element of the generator in SledSerializerBasic.to_smap_content
SledSerializerBasic_smap_pair(self, pair, indent) ==
    LET k == Ser("to_string", self, <<pair[1].s, indent>>)
        v == Ser("to_entity", self, <<pair[2], indent>>)
    IN IF k.st = "raise" THEN k
       ELSE IF v.st = "raise" THEN v
       ELSE Return(k.val \o <<" ", KEY_VALUE_SEPARATOR, " ">> \o v.val)

\* one element of the generator in SledSerializerMini.to_smap_content
SledSerializerMini_smap_pair(self, pair, indent) ==
    LET k == Ser("to_string", self, <<pair[1].s, <<>> >>)
        v == Ser("to_entity", self, <<pair[2], <<>> >>)
    IN IF k.st = "raise" THEN k
       ELSE IF v.st = "raise" THEN v
       ELSE Return(k.val \o <<KEY_VALUE_SEPARATOR>> \o v.val)

\* one element of the generator in SledSerializerBasic.to_imap_content
SledSerializerBasic_imap_pair(self, pair, indent) ==
    LET k == Ser("to_integer", self, <<int(pair[1])>>)
        v == Ser("to_entity", self, <<pair[2], indent>>)
    IN IF k.st = "raise" THEN k
       ELSE IF v.st = "raise" THEN v
       ELSE Return(k.val \o <<" ", KEY_VALUE_SEPARATOR, " ">> \o v.val)

\* one element of the generator in SledSerializerMini.to_imap_content
SledSerializerMini_imap_pair(self, pair, indent) ==
    LET k == Ser("to_integer", self, <<int(pair[1])>>)
        v == Ser("to_entity", self, <<pair[2], <<>> >>)
    IN IF k.st = "raise" THEN k
       ELSE IF v.st = "raise" THEN v
       ELSE Return(k.val \o <<KEY_VALUE_SEPARATOR>> \o v.val)

\* SledSerializerBasic.to_smap_content
SledSerializerBasic_to_smap_content(self, mapping, indent) ==
    JoinBetween(self, "smap_pair", mapping.pairs, indent, self._line_separator \o indent)

\* to_smap_content as SledSerializerMini would inherit it, had it no override:
\* the pairs are joined by the line separator
to_smap_content_inherited(self, mapping, indent) ==
    JoinBetween(self, "smap_pair", mapping.pairs, indent, self._line_separator \o indent)

\* SledSerializerMini.to_smap_content
SledSerializerMini_to_smap_content(self, mapping, indent) ==
    JoinBetween(self, "smap_pair", mapping.pairs, indent, <<DELIMITER_MARK>>)

\* SledSerializerBasic.to_imap_content
SledSerializerBasic_to_imap_content(self, mapping, indent) ==
    JoinBetween(self, "imap_pair", mapping.pairs, indent, self._line_separator \o indent)

\* SledSerializerMini.to_imap_content
SledSerializerMini_to_imap_content(self, mapping, indent) ==
    JoinBetween(self, "imap_pair", mapping.pairs, indent, <<DELIMITER_MARK>>)

\* SledSerializerBasic.to_list
SledSerializerBasic_to_list(self, it, indent) ==
    LET nested_indent == indent \o self._indent
        last_line_separator == self._line_separator \o indent
        line_separator == self._line_separator \o nested_indent
        content == JoinEach(self, "to_entity", it, nested_indent, line_separator)
    IN IF content.st = "raise" THEN content
       ELSE Return(<<LIST_OPEN_MARK>> \o content.val \o last_line_separator
                   \o <<LIST_CLOSE_MARK>>)

\* SledSerializerMini.to_list
SledSerializerMini_to_list(self, it, indent) ==
    LET content == JoinBetween(self, "to_entity", it, <<>>, <<DELIMITER_MARK>>)
    IN IF content.st = "raise" THEN content
       ELSE Return(<<LIST_OPEN_MARK>> \o content.val \o <<LIST_CLOSE_MARK>>)

\* SledSerializerBasic.to_boolean
to_boolean(self, b) ==
    Return(IF b THEN Lexeme(Chars("true")) ELSE Lexeme(Chars("false")))

\* a str, and the bound method `content.upper` that _to_hex_content returns
\* in place of a str when hex_upper_case is set (upper is not called)
StrObject(s) == [type |-> "str", s |-> s]
BoundMethodUpper(s) == [type |-> "builtin_function_or_method", self |-> s]

\* f"{content}": the text of a str, the repr of a bound method (its address
\* differs from run to run)
FormatObject(content) ==
    IF content.type = "str" THEN content.s
    ELSE Chars("<built-in method upper of str object at 0x7f0000000000>")

HexKeywordOpen == <<KEYWORD_MARK>> \o HEX_KEYWORD_NAME \o <<HEX_OPEN_MARK>>

\* SledSerializerBasic._to_hex_content
SledSerializerBasic__to_hex_content(self, b) ==
    LET content == hex(b)
    IN Return(IF self._hex_upper_case THEN BoundMethodUpper(content) ELSE StrObject(content))

\* SledSerializer._to_hex_content: bytes.hex raises ValueError unless the
\* separator has length 1
SledSerializer__to_hex_content(self, b) ==
    IF Len(self._hex_horizontal_separator) # 1 THEN Throw(ValueError)
    ELSE LET content == hex_sep(b, self._hex_horizontal_separator,
                                self._hex_bytes_per_separator)
         IN Return(IF self._hex_upper_case THEN BoundMethodUpper(content)
                   ELSE StrObject(content))

\* SledSerializerBasic.to_hex
SledSerializerBasic_to_hex(self, b, indent) ==
    LET content == Ser("_to_hex_content", self, <<b>>)
    IN IF content.st = "raise" THEN content
       ELSE Return(HexKeywordOpen \o FormatObject(content.val) \o <<HEX_CLOSE_MARK>>)

RECURSIVE FoldLoop(_, _, _, _)
\* the while loop of SledSerializer._fold_hex_lines
FoldLoop(hex_content, line_start_index, line_length, line_length_in_content) ==
    IF line_start_index < Len(hex_content)
    THEN <<Slice(hex_content, line_start_index, line_start_index + line_length)>>
         \o FoldLoop(hex_content, line_start_index + line_length_in_content,
                     line_length, line_length_in_content)
    ELSE <<>>

\* SledSerializer._fold_hex_lines for hex_bytes_per_separator <= 0
FoldLeftToRight(self, hex_content, hex_bytes_per_separator) ==
    LET grouped == hex_bytes_per_separator # 0 /\ self._hex_horizontal_separator # <<>>
        separator_length == Len(self._hex_horizontal_separator)
        remainder_length ==
            PyMod(self._hex_line_length + separator_length,
                  HEX_DIGITS_PER_BYTE * hex_bytes_per_separator + separator_length)
        line_length == IF grouped THEN self._hex_line_length - remainder_length
                       ELSE self._hex_line_length
        line_length_in_content == IF grouped THEN line_length + separator_length
                                  ELSE line_length
    IN FoldLoop(hex_content, 0, line_length, line_length_in_content)

\* SledSerializer._fold_hex_lines
_fold_hex_lines(self, hex_content, hex_bytes_per_separator) ==
    IF hex_bytes_per_separator > 0
    THEN LET reversed_lines ==
                 FoldLeftToRight(self, Reversed(hex_content), 0 - hex_bytes_per_separator)
             lines == [i \in 1..Len(reversed_lines) |->
                          Reversed(reversed_lines[Len(reversed_lines) + 1 - i])]
         IN IF Len(lines) > 1
            THEN [lines EXCEPT ![1] = rjust(lines[1], Len(lines[2]))]
            ELSE lines
    ELSE FoldLeftToRight(self, hex_content, hex_bytes_per_separator)

\* SledSerializer.to_hex: len() of the bound method raises TypeError
SledSerializer_to_hex(self, b, indent) ==
    LET content == Ser("_to_hex_content", self, <<b>>)
        lines == _fold_hex_lines(self, content.val.s, self._hex_bytes_per_separator)
        last_line_separator == self._line_separator \o indent
        line_separator == last_line_separator \o self._indent
        joined_lines == join(<<>>, [i \in 1..Len(lines) |-> line_separator \o lines[i]])
    IN IF content.st = "raise" THEN content
       ELSE IF self._hex_line_length <= 0
       THEN Return(HexKeywordOpen \o FormatObject(content.val) \o <<HEX_CLOSE_MARK>>)
       ELSE IF content.val.type # "str" THEN Throw(TypeError)
       ELSE IF Len(content.val.s) < self._hex_line_length
       THEN Return(HexKeywordOpen \o content.val.s \o <<HEX_CLOSE_MARK>>)
       ELSE Return(HexKeywordOpen \o joined_lines \o last_line_separator
                   \o <<HEX_CLOSE_MARK>>)

\* SledSerializerBasic.validate_integer
validate_integer(self, n) ==
    IF IntLess(n, SLED_INTEGER_MIN) \/ IntLess(SLED_INTEGER_MAX, n)
    THEN Throw(SledError(NUMBER_RANGE,
                         "Value cannot be represented by a Sled integer (overflow)", 0, <<>>))
    ELSE Return(None)

\* SledSerializer.to_integer (and SledSerializerBasic.to_integer)
SledSerializer_to_integer(self, n) ==
    LET valid == Ser("validate_integer", self, <<n>>)
    IN IF valid.st = "raise" THEN valid ELSE Return(FormatInteger(n, TRUE))

\* SledSerializerMini.to_integer
SledSerializerMini_to_integer(self, n) ==
    LET valid == Ser("validate_integer", self, <<n>>)
    IN IF valid.st = "raise" THEN valid ELSE Return(FormatInteger(n, FALSE))

\* to_float_custom without the test of the sign of an infinity
to_float_custom_unsigned(self, x, use_thousands_separator) ==
    IF isnan(FloatV(x)) THEN Return(Lexeme(Chars("nan")))
    ELSE IF isinf(FloatV(x)) THEN Return(Lexeme(Chars("inf")))
    ELSE Return(FormatFloat(x, use_thousands_separator))

\* SledSerializerBasic.to_float_custom
to_float_custom(self, x, use_thousands_separator) ==
    IF isnan(FloatV(x)) THEN Return(Lexeme(Chars("nan")))
    ELSE IF isinf(FloatV(x))
    THEN Return(IF FloatV(x) = NINF THEN Lexeme(Chars("ninf")) ELSE Lexeme(Chars("inf")))
    ELSE LET formatted == FormatFloat(x, use_thousands_separator)
             has_decimal_mark == \E i \in 1..Len(formatted) : formatted[i] = DEFAULT_DECIMAL_MARK
             marked == IF has_decimal_mark /\ self._decimal_mark # DEFAULT_DECIMAL_MARK
                       THEN replace(formatted, <<DEFAULT_DECIMAL_MARK>>, <<self._decimal_mark>>)
                       ELSE formatted
             has_exponent == \E i \in 1..Len(marked) : marked[i] = DEFAULT_EXPONENT_PREFIX
             prefixed == IF has_exponent /\ self._exponent_prefix # DEFAULT_EXPONENT_PREFIX
                         THEN replace(marked, <<DEFAULT_EXPONENT_PREFIX>>,
                                      <<self._exponent_prefix>>)
                         ELSE marked
         IN Return(IF ~(has_decimal_mark \/ has_exponent)
                   THEN prefixed \o <<self._decimal_mark, "0">>
                   ELSE prefixed)

\* SledSerializer.to_float
SledSerializer_to_float(self, x) ==
    Ser("to_float_custom", self, <<x, self._use_thousands_separator>>)

\* SledSerializerMini.to_float
SledSerializerMini_to_float(self, x) == Ser("to_float_custom", self, <<x, FALSE>>)

UNICODE_ESCAPE_OPEN_SEQUENCE ==
    <<ESCAPE_CHARACTER, UNICODE_ESCAPE_KEY, UNICODE_ESCAPE_OPEN_MARK>>

\* SledSerializerBasic.to_unicode_escape, c of length 1
to_unicode_escape(self, c) ==
    Return(UNICODE_ESCAPE_OPEN_SEQUENCE \o FormatUpperHex(ord(c))
           \o <<UNICODE_ESCAPE_CLOSE_MARK>>)

\* _try_to_identity without its test for whitespace
_try_to_identity_unspaced(self, s) ==
    IF \/ s = <<>>
       \/ self._always_quote
       \/ s[1] \in IDENTITY_DISALLOWED_START_SYMBOLS \ HORIZONTAL_SPACE_SET
       \/ \E i \in 1..Len(s) :
             s[i] \in IDENTITY_DISALLOWED_SYMBOLS \ (C0_CONTROL_SET \cup HORIZONTAL_SPACE_SET)
       \/ (self._ascii_only /\ \E i \in 1..Len(s) : ~isascii(s[i]))
    THEN Return(<<>>)
    ELSE Return(s)

\* SledSerializerBasic._try_to_identity
_try_to_identity(self, s) ==
    IF \/ s = <<>>
       \/ self._always_quote
       \/ s[1] \in IDENTITY_DISALLOWED_START_SYMBOLS
       \/ \E i \in 1..Len(s) : s[i] \in IDENTITY_DISALLOWED_SYMBOLS \/ InC0ControlSet(s[i])
       \/ \E i \in 1..Len(s) : isspace(s[i])
       \/ (self._ascii_only /\ \E i \in 1..Len(s) : ~isascii(s[i]))
    THEN Return(<<>>)
    ELSE Return(s)

\* SledSerializerBasic.escape_string.  The two leading replace() calls run in
\* sequence; the three loops replace single characters by escape sequences
\* free of any character still to be replaced, so that their order of
\* iteration does not show and each character is replaced where it stands.
escape_string(self, s) ==
    LET escaped == replace(s, <<ESCAPE_CHARACTER>>, ESCAPE_CHARACTER_ESCAPE)
        content == replace(escaped, <<self._quote_mark>>, self._quote_mark_escape)
        each(c) == IF c \in C0_SIMPLE_ESCAPE_SET THEN SIMPLE_ESCAPE_SEQUENCES(c)
                   ELSE IF InC0ControlSet(c) \/ (self._ascii_only /\ ~isascii(c))
                   THEN Ser("to_unicode_escape", self, <<c>>).val
                   ELSE <<c>>
    IN Return(join(<<>>, [i \in 1..Len(content) |-> each(content[i])]))

\* SledSerializerBasic.to_string (SledSerializerMini.to_string is the same)
SledSerializerBasic_to_string(self, s, indent) ==
    LET identity == Ser("_try_to_identity", self, <<s>>)
        content == Ser("escape_string", self, <<s>>)
    IN IF s = <<>> THEN Return(<<self._quote_mark, self._quote_mark>>)
       ELSE IF identity.val # <<>> THEN identity
       ELSE Return(<<self._quote_mark>> \o content.val \o <<self._quote_mark>>)

\* SledSerializer.to_string
SledSerializer_to_string(self, s, indent) ==
    LET identity == Ser("_try_to_identity", self, <<s>>)
        content == Ser("escape_string", self, <<s>>)
        quoted == <<self._quote_mark>> \o content.val \o <<self._quote_mark>>
        lines_wo_separator == split(content.val, self._line_separator_escape)
        lines == [i \in 1..Len(lines_wo_separator) |->
                     IF i = Len(lines_wo_separator) THEN lines_wo_separator[i]
                     ELSE lines_wo_separator[i] \o self._line_separator_escape]
        last_line_separator == self._line_separator \o indent
        segment_separator == last_line_separator \o self._indent
        segments_str ==
            join(<<>>, [i \in 1..Len(lines) |->
                           segment_separator \o <<self._quote_mark>> \o lines[i]
                           \o <<self._quote_mark>>])
    IN IF s = <<>> THEN Return(<<self._quote_mark, self._quote_mark>>)
       ELSE IF identity.val # <<>> THEN identity
       ELSE IF ~self._break_on_line_separator THEN Return(quoted)
       ELSE IF Len(lines_wo_separator) = 1 THEN Return(quoted)
       ELSE Return(<<KEYWORD_MARK>> \o CONCAT_KEYWORD_NAME \o <<CONCAT_OPEN_MARK>>
                   \o segments_str \o last_line_separator \o <<CONCAT_CLOSE_MARK>>)

\* self.method(args): the method of SledSerializerMini or SledSerializer when
\* the class of self overrides it, else the one of SledSerializerBasic
Ser(method, self, args) ==
    CASE method = "to_sled" -> SledSerializerBasic_to_sled(self, args[1])
      [] method = "to_top_level_smap" ->
            IF IsMini(self) THEN SledSerializerMini_to_top_level_smap(self, args[1])
            ELSE SledSerializerBasic_to_top_level_smap(self, args[1])
      [] method = "to_top_level_smap_str" -> to_top_level_smap_str(self, args[1])
      [] method = "to_entity" -> to_entity(self, args[1], args[2])
      [] method = "_try_base_concrete" -> _try_base_concrete(self, args[1], args[2])
      [] method = "to_map" ->
            IF IsMini(self) THEN SledSerializerMini_to_map(self, args[1], args[2])
            ELSE SledSerializerBasic_to_map(self, args[1], args[2])
      [] method = "_enclose_map_content" ->
            IF IsMini(self) THEN SledSerializerMini__enclose_map_content(self, args[1], args[2])
            ELSE SledSerializerBasic__enclose_map_content(self, args[1], args[2])
      [] method = "to_map_content" -> to_map_content(self, args[1], args[2])
      [] method = "_validate_distinct_map_keys" -> _validate_distinct_map_keys(self, args[1])
      [] method = "to_smap_content" ->
            IF IsMini(self) THEN SledSerializerMini_to_smap_content(self, args[1], args[2])
            ELSE SledSerializerBasic_to_smap_content(self, args[1], args[2])
      [] method = "smap_pair" ->
            IF IsMini(self) THEN SledSerializerMini_smap_pair(self, args[1], args[2])
            ELSE SledSerializerBasic_smap_pair(self, args[1], args[2])
      [] method = "to_imap_content" ->
            IF IsMini(self) THEN SledSerializerMini_to_imap_content(self, args[1], args[2])
            ELSE SledSerializerBasic_to_imap_content(self, args[1], args[2])
      [] method = "imap_pair" ->
            IF IsMini(self) THEN SledSerializerMini_imap_pair(self, args[1], args[2])
            ELSE SledSerializerBasic_imap_pair(self, args[1], args[2])
      [] method = "to_list" ->
            IF IsMini(self) THEN SledSerializerMini_to_list(self, args[1], args[2])
            ELSE SledSerializerBasic_to_list(self, args[1], args[2])
      [] method = "to_boolean" -> to_boolean(self, args[1])
      [] method = "to_hex" ->
            IF IsMini(self) THEN SledSerializerBasic_to_hex(self, args[1], args[2])
            ELSE SledSerializer_to_hex(self, args[1], args[2])
      [] method = "_to_hex_content" ->
            IF IsMini(self) THEN SledSerializerBasic__to_hex_content(self, args[1])
            ELSE SledSerializer__to_hex_content(self, args[1])
      [] method = "to_integer" ->
            IF IsMini(self) THEN SledSerializerMini_to_integer(self, args[1])
            ELSE SledSerializer_to_integer(self, args[1])
      [] method = "validate_integer" -> validate_integer(self, args[1])
      [] method = "to_float" ->
            IF IsMini(self) THEN SledSerializerMini_to_float(self, args[1])
            ELSE SledSerializer_to_float(self, args[1])
      [] method = "to_float_custom" -> to_float_custom(self, args[1], args[2])
      [] method = "to_string" ->
            IF IsMini(self) THEN SledSerializerBasic_to_string(self, args[1], args[2])
            ELSE SledSerializer_to_string(self, args[1], args[2])
      [] method = "_try_to_identity" -> _try_to_identity(self, args[1])
      [] method = "escape_string" -> escape_string(self, args[1])
      [] method = "to_unicode_escape" -> to_unicode_escape(self, args[1])

(***************************************************************************)
(* Calls and their results.                                                *)
(***************************************************************************)
\* the result of a call: what it returned or what it raised
Returned(value) == [kind |-> "returned", value |-> value]
Raised(exc) == [kind |-> "raised", exc |-> exc]

\* `outcome` after a call of method entered with the parser's fields at from
Call(method, from, result) == [method |-> method, from |-> from] @@ result

ParserFields == [index |-> _index, line_num |-> _line_num, line_start |-> _line_start]

\* the fields after Parser.__init__ and after Parser.reset
StartFields == [index |-> 0, line_num |-> 1, line_start |-> 0]

NoCall == Call("none", StartFields, [kind |-> "none"])

\* what a finished call r of _parse_document, entered at from, leaves in the
\* fields and in _evaluation, and what parse returns or raises
Finish(from, r) ==
    /\ _index' = r.p.index
    /\ _line_num' = r.p.line_num
    /\ _line_start' = r.p.line_start
    /\ _evaluation' = IF r.st = "ok" THEN r.val ELSE None
    /\ outcome' = Call("parse", from, IF r.st = "ok" THEN Returned(r.val) ELSE Raised(r.exc))

\* Parser.parse run on text T from the fields p with no cached evaluation
RunParse(T, p) == Finish(p, Self("_parse_document", T, p, <<>>))

(***************************************************************************)
(* The parser as a state machine: a Parser object constructed on one of    *)
(* the input texts, and its public methods parse and reset.                *)
(***************************************************************************)
\* the longest text enumerated over Alphabet
MaxTextLen == 3

Alphabet == {"a", "1", "=", "{", "}", "@", ";", "_"}

RECURSIVE TextsUpTo(_)
TextsUpTo(n) ==
    IF n = 0 THEN {<<>>}
    ELSE LET shorter == TextsUpTo(n - 1)
         IN shorter \cup {Append(t, c) : t \in {u \in shorter : Len(u) = n - 1}, c \in Alphabet}

\* the example of the module docstring (_parser.py)
DocExample ==
    Chars("name = \"John Doe\"\nage = 50\nchildren = [Jane; Jimmy]\n")

\* documents written out in full
Seeds ==
    { DocExample,
      Chars("a = b"), Chars("a = [x; y]\nb = {k = v}"), Chars("{a = b}"),
      Chars("a = 50"), Chars("a = [50]"), Chars("a = [x; -7]"),
      Chars("a = {x = y}"), Chars("a = [x]"), Chars("a = @true"),
      Chars("a = \"x y\""), Chars("a = 'x'"), Chars("a = +5"), Chars("a = .5"),
      Chars("a = _1"),
      Chars("m = {1 = a; 2 = b}"), Chars("m = {1 = a}"), Chars("m = {-3 = a; 4 = b; 5 = c}"),
      Chars("m = {1 = a; 1 = b}"),
      Chars("{a = 1; 2 = 3}"), Chars("{a = x; 2 = y}"), Chars("m = {a = x; 2 = y}"),
      Chars("m = {1 = x; b = y}"), Chars("m = {1.5 = x}"), Chars("m = {1e3 = x}"),
      Chars("m = {@nan = x}"), Chars("m = {@hex(ab) = x}"), Chars("m = {@true = x}"),
      Chars("a = b; a = c"), Chars("a = b\n\"a\" = c\n@concat(\"a\") = d"),
      Chars("a = b; c = d; a = e; c = f"), Chars("a = b; c = {x = y; 'x' = z}"),
      Chars("a = @hex(ab\ncd)\nb = x\nb = y"),
      Chars("a = 9223372036854775807"), Chars("a = 9223372036854775808"),
      Chars("a = [9223372036854775807]"), Chars("a = [-9223372036854775809]"),
      Chars("m = {9223372036854775807 = x}"), Chars("m = {9223372036854775808 = x}"),
      Chars("m = {-9223372036854775808 = x}"), Chars("m = {-9223372036854775809 = x}"),
      Chars("m = {9_223_372_036_854_775_807 = x}"),
      Chars("a = @nan; b = @inf; c = @ninf"), Chars("a = [@nan; @inf; @ninf]"),
      Chars("a = @hex(deadbeef)"), Chars("a = @hex(de ad be ef)"),
      Chars("a = @hex(dead_beef)"), Chars("a = @hex(de_ad_be_ef)"),
      Chars("a = @hex(de__ad)"), Chars("a = @hex(de\nad\tbe ef)"),
      Chars("a = @hex(dea)"), Chars("a = @hex(d e a)"), Chars("a = @hex(a\nbc)"),
      Chars("a = @hex()"), Chars("a = @hex(DEADbeef)"), Chars("a = @hex(xy)"),
      Chars("a = @hex("), Chars("m = {+ = x}"), Chars("a = \"\\u{}\""),
      Chars("a = \"\\u{41}\""), Chars("a = \"\\u{110000}\""),
      Chars("@hex('ab') = x"), Chars("@true('k') = x"), Chars("m = {a = x; @nil('b') = y}"),
      Chars("@concat('a') = x"), Chars("@true = x"),
      Chars("{a = b"), Chars("a = b}"), Chars("{a = b}}"), Chars("{a = b} c = d"),
      Chars("{a = b}\n"), Chars("{a = b;\n}"), Chars("a = {b = c}}"), Chars("{a = [b]"),
      Chars("a = @foo; c = d"), Chars("a=@hex(\nde)"), Chars("a=@hex(\n)\nb=]") }

Prefixes(t) == {SubSeq(t, 1, n) : n \in 0..Len(t)}

\* the texts a Parser is constructed on
\* two consecutive items of a map, a list or a concat: the text before the
\* first, the two items, the text after the second, and the value of the
\* document; bare says that the items are identities, which run together
\* when nothing stands between them
SeparationCases ==
    { [open |-> <<>>, first |-> Chars("a = x"), second |-> Chars("b = y"), close |-> <<>>,
       bare |-> TRUE,
       value |-> DictV(<< <<StrV(Chars("a")), StrV(Chars("x"))>>,
                          <<StrV(Chars("b")), StrV(Chars("y"))>> >>)],
      [open |-> Chars("m = {"), first |-> Chars("a = 'x'"), second |-> Chars("b = y"),
       close |-> Chars("}"), bare |-> FALSE,
       value |-> DictV(<< <<StrV(Chars("m")),
                            DictV(<< <<StrV(Chars("a")), StrV(Chars("x"))>>,
                                     <<StrV(Chars("b")), StrV(Chars("y"))>> >>)>> >>)],
      [open |-> Chars("a = ["), first |-> Chars("x"), second |-> Chars("y"),
       close |-> Chars("]"), bare |-> TRUE,
       value |-> DictV(<< <<StrV(Chars("a")),
                            ListV(<<StrV(Chars("x")), StrV(Chars("y"))>>)>> >>)],
      [open |-> Chars("a = ["), first |-> Chars("[]"), second |-> Chars("'y'"),
       close |-> Chars("]"), bare |-> FALSE,
       value |-> DictV(<< <<StrV(Chars("a")),
                            ListV(<<ListV(<<>>), StrV(Chars("y"))>>)>> >>)],
      [open |-> Chars("a = @concat("), first |-> Chars("'x'"), second |-> Chars("\"y\""),
       close |-> Chars(")"), bare |-> FALSE,
       value |-> DictV(<< <<StrV(Chars("a")), StrV(Chars("xy"))>> >>)] }

\* what stands between two items without separating them: horizontal
\* whitespace, or nothing
Gaps(case) ==
    {<<" ">>, <<"\t">>, <<" ", "\t", " ">>} \cup (IF case.bare THEN {} ELSE {<<>>})

\* what separates two items: delimiter marks and line separators, with
\* horizontal whitespace and comments
Delimiters ==
    {<<";">>, <<"\n">>, <<"\r", "\n">>, Chars(" ; "), Chars(";;"), Chars("\n\n"),
     Chars(" #c\n"), Chars(";\n;")}

\* what may stand before the first item and after the last: nothing,
\* delimiters
Margins == {<<>>, <<";">>, Chars("\n; ")}

SeparatedText(case, lead, between, trail) ==
    case.open \o lead \o case.first \o between \o case.second \o trail \o case.close

SeparatedTexts ==
    {SeparatedText(case, lead, between, trail) :
        case \in SeparationCases, lead \in Margins,
        between \in Delimiters \cup {<<" ">>, <<"\t">>, <<" ", "\t", " ">>, <<>>},
        trail \in Margins}

\* a line with an invalid "]" that has 5 + before characters before it, lead
\* left out, and after characters after it
LongLine(lead, before, after) ==
    lead \o Chars("a = ") \o Repeat("x", before) \o Chars(" ]") \o Repeat("y", after)

\* lines around the 80 characters of context that an error message shows
LongLineTexts ==
    {LongLine(lead, before, after) :
        lead \in {<<>>, <<" ", " ">>, <<"\n", "\t", " ">>},
        before \in 74..77, after \in 79..82}

\* the longest text on which every step of the parser is run from every index
MaxStepTextLen == 60

Texts ==
    Seeds \cup UNION {Prefixes(t) : t \in Seeds} \cup TextsUpTo(MaxTextLen)
          \cup SeparatedTexts \cup LongLineTexts

\* Parser.__init__(text), text drawn from Texts
Init ==
    /\ \E text \in Texts : _text = standardize_line_separator(text)
    /\ _index = 0
    /\ _line_num = 1
    /\ _line_start = 0
    /\ _evaluation = None
    /\ outcome = NoCall
    /\ config = None
    /\ to_sled_obj = None
    /\ to_sled_result = NoCall
    /\ serializer = "none"
    /\ reserialized = NoCall

\* Parser.parse
parse ==
    /\ IF _evaluation = None
       THEN RunParse(_text, ParserFields)
       ELSE /\ outcome' = Call("parse", ParserFields, Returned(_evaluation))
            /\ UNCHANGED <<_index, _line_num, _line_start, _evaluation>>
    /\ UNCHANGED <<_text, config, to_sled_obj, to_sled_result, serializer, reserialized>>

\* Parser.reset
reset ==
    /\ _index' = 0
    /\ _line_start' = 0
    /\ _line_num' = 1
    /\ _evaluation' = None
    /\ outcome' = Call("reset", ParserFields, Returned(None))
    /\ UNCHANGED <<_text, config, to_sled_obj, to_sled_result, serializer, reserialized>>

Next == parse \/ reset

Spec == Init /\ [][Next]_vars

(***************************************************************************)
(* Properties of the parser.                                               *)
(***************************************************************************)
\* parse has just run on a parser that was newly constructed or reset:
\* what from_sled(_text) does
FreshParse == outcome.method = "parse" /\ outcome.from = StartFields

ParseReturned(value) == FreshParse /\ outcome.kind = "returned" /\ outcome.value = value

ParseRaisedSledError(error_category) ==
    /\ FreshParse
    /\ outcome.kind = "raised"
    /\ outcome.exc.type = "SledError"
    /\ outcome.exc.error_category = error_category

Str(s) == StrV(Chars(s))
Integer(neg, digits) == IntV([neg |-> neg, mag |-> DigitValues(Chars(digits))])

\* C2: every call of parse either returns a complete root map (the whole
\* text consumed) or raises a SledError that carries a reason, one of the
\* four categories and a line number of at least 1; nothing else is raised.
C2_ReturnsMapOrRaisesSledError ==
    outcome.method = "parse" =>
        \/ /\ outcome.kind = "returned"
           /\ outcome.value.tag = "dict"
           /\ _evaluation = outcome.value
           /\ _index = Len(_text)
        \/ /\ outcome.kind = "raised"
           /\ outcome.exc.type = "SledError"
           /\ outcome.exc.error_category \in SledErrorCategory
           /\ outcome.exc.reason # ""
           /\ outcome.exc.start_line_num >= 1

\* C3: an entity that starts with a number-start character is parsed as a
\* number: the documents `a = 50`, `a = [x; -7]` and the example of the
\* module docstring parse to maps holding the Integers 50 and -7.
C3_NumberEntityDispatched ==
    /\ (FreshParse /\ _text = DocExample) =>
          ParseReturned(DictV(<< <<Str("name"), Str("John Doe")>>,
                                 <<Str("age"), Integer(FALSE, "50")>>,
                                 <<Str("children"), ListV(<<Str("Jane"), Str("Jimmy")>>)>> >>))
    /\ (FreshParse /\ _text = Chars("a = 50")) =>
          ParseReturned(DictV(<< <<Str("a"), Integer(FALSE, "50")>> >>))
    /\ (FreshParse /\ _text = Chars("a = [x; -7]")) =>
          ParseReturned(DictV(<< <<Str("a"), ListV(<<Str("x"), Integer(TRUE, "7")>>)>> >>))

Occurrence(line_num, index) == [line_num |-> line_num, index |-> index]

\* C4: a map that holds one evaluated key more than once makes parse raise
\* one SledError of category duplicate map key that lists the line and the
\* in-line index of every occurrence of every duplicated key.
C4_DuplicateKeysAllListed ==
    /\ (FreshParse /\ _text = Chars("a = b; a = c")) =>
          /\ ParseRaisedSledError(DUPLICATE_MAP_KEY)
          /\ outcome.exc.where =
                << [key |-> Str("a"), reps |-> <<Occurrence(1, 0), Occurrence(1, 7)>>] >>
    /\ (FreshParse /\ _text = Chars("a = b\n\"a\" = c\n@concat(\"a\") = d")) =>
          /\ ParseRaisedSledError(DUPLICATE_MAP_KEY)
          /\ Len(outcome.exc.where) = 1
          /\ outcome.exc.where[1].key = Str("a")
          /\ [i \in 1..3 |-> outcome.exc.where[1].reps[i].line_num] = <<1, 2, 3>>
    /\ (FreshParse /\ _text = Chars("a = b; c = d; a = e; c = f")) =>
          /\ ParseRaisedSledError(DUPLICATE_MAP_KEY)
          /\ outcome.exc.where =
                << [key |-> Str("a"), reps |-> <<Occurrence(1, 0), Occurrence(1, 14)>>],
                   [key |-> Str("c"), reps |-> <<Occurrence(1, 7), Occurrence(1, 21)>>] >>
    /\ (FreshParse /\ _text = Chars("m = {1 = a; 1 = b}")) =>
          /\ ParseRaisedSledError(DUPLICATE_MAP_KEY)
          /\ outcome.exc.where =
                << [key |-> Integer(FALSE, "1"), reps |-> <<Occurrence(1, 5), Occurrence(1, 12)>>] >>
    /\ (FreshParse /\ _text = Chars("a = @hex(ab\ncd)\nb = x\nb = y")) =>
          /\ ParseRaisedSledError(DUPLICATE_MAP_KEY)
          /\ outcome.exc.where =
                << [key |-> Str("b"), reps |-> <<Occurrence(3, 0), Occurrence(4, 0)>>] >>

\* C5: a key whose kind differs from the kind of its map's first key (string
\* for the root map), and a first key that is neither a string nor an
\* integer, make parse raise a SledError of category map key type.
C5_KeyKindMismatchRaisesMapKeyType ==
    (FreshParse /\ _text \in { Chars("{a = 1; 2 = 3}"), Chars("{a = x; 2 = y}"),
                               Chars("m = {a = x; 2 = y}"), Chars("m = {1 = x; b = y}"),
                               Chars("m = {1.5 = x}"), Chars("m = {1e3 = x}") })
        => ParseRaisedSledError(MAP_KEY_TYPE)

\* C6: a nested map of two or more pairs keyed by in-range integer literals
\* parses to an integer-keyed map holding every pair in source order.
C6_IntegerKeyedMapParses ==
    /\ (FreshParse /\ _text = Chars("m = {1 = a; 2 = b}")) =>
          ParseReturned(DictV(<< <<Str("m"),
              DictV(<< <<Integer(FALSE, "1"), Str("a")>>, <<Integer(FALSE, "2"), Str("b")>> >>)>> >>))
    /\ (FreshParse /\ _text = Chars("m = {-3 = a; 4 = b; 5 = c}")) =>
          ParseReturned(DictV(<< <<Str("m"),
              DictV(<< <<Integer(TRUE, "3"), Str("a")>>, <<Integer(FALSE, "4"), Str("b")>>,
                       <<Integer(FALSE, "5"), Str("c")>> >>)>> >>))

\* C7: a number literal without decimal mark and exponent parses to that
\* Integer when it lies in [-2^63, 2^63 - 1] and makes parse raise a SledError
\* of category number range when it lies outside, as a map value, as a list
\* element and as an integer map key.
C7_IntegerLiteralRange ==
    /\ (FreshParse /\ _text = Chars("a = 9223372036854775807")) =>
          ParseReturned(DictV(<< <<Str("a"), IntV(SLED_INTEGER_MAX)>> >>))
    /\ (FreshParse /\ _text = Chars("a = [9223372036854775807]")) =>
          ParseReturned(DictV(<< <<Str("a"), ListV(<<IntV(SLED_INTEGER_MAX)>>)>> >>))
    /\ (FreshParse /\ _text = Chars("m = {9223372036854775807 = x}")) =>
          ParseReturned(DictV(<< <<Str("m"),
              DictV(<< <<IntV(SLED_INTEGER_MAX), Str("x")>> >>)>> >>))
    /\ (FreshParse /\ _text = Chars("m = {-9223372036854775808 = x}")) =>
          ParseReturned(DictV(<< <<Str("m"),
              DictV(<< <<IntV(SLED_INTEGER_MIN), Str("x")>> >>)>> >>))
    /\ (FreshParse /\ _text \in { Chars("a = 9223372036854775808"),
                                 Chars("a = [-9223372036854775809]"),
                                 Chars("m = {9223372036854775808 = x}"),
                                 Chars("m = {-9223372036854775809 = x}") })
          => ParseRaisedSledError(NUMBER_RANGE)

DEADBEEF == BytesV(<<222, 173, 190, 239>>)

\* C10: @hex(...) evaluates to the bytes its hex digits denote once the
\* horizontal space, the line separators and the underscores are removed;
\* an odd number of hex digits is rejected with a SledError.
C10_HexSeparatorsIgnored ==
    /\ (FreshParse /\ _text \in { Chars("a = @hex(deadbeef)"), Chars("a = @hex(de ad be ef)"),
                                 Chars("a = @hex(de\nad\tbe ef)"), Chars("a = @hex(dead_beef)"),
                                 Chars("a = @hex(de_ad_be_ef)") })
          => ParseReturned(DictV(<< <<Str("a"), DEADBEEF>> >>))
    /\ (FreshParse /\ _text \in { Chars("a = @hex(dea)"), Chars("a = @hex(d e a)") })
          => (outcome.kind = "raised" /\ outcome.exc.type = "SledError")

(***************************************************************************)
(* The serializers as a state machine: a value and a configuration are     *)
(* drawn, to_sled or to_sled_mini serializes the value under the           *)
(* configuration, and from_sled parses the text that came out.             *)
(***************************************************************************)
\* the defaults of the keyword arguments of to_sled
DefaultConfig ==
    [indent |-> DEFAULT_INDENT,
     use_top_level_braces |-> FALSE,
     line_separator |-> <<DEFAULT_LINE_SEPARATOR>>,
     always_quote |-> FALSE,
     break_on_line_separator |-> TRUE,
     ascii_only |-> FALSE,
     quote_mark |-> DEFAULT_QUOTE_MARK,
     hex_upper_case |-> FALSE,
     hex_horizontal_separator |-> <<DIGIT_SEPARATOR>>,
     hex_bytes_per_separator |-> DEFAULT_HEX_BYTES_PER_SEPARATOR,
     hex_line_length |-> DEFAULT_HEX_LINE_LENGTH,
     decimal_mark |-> DEFAULT_DECIMAL_MARK,
     exponent_prefix |-> DEFAULT_EXPONENT_PREFIX,
     use_thousands_separator |-> TRUE]

\* the keyword arguments that to_sled_mini takes
MiniOptions ==
    {"use_top_level_braces", "always_quote", "ascii_only", "quote_mark", "hex_upper_case",
     "decimal_mark", "exponent_prefix"}

\* the configurations that differ from the defaults in the number format
FloatConfigs ==
    {[DefaultConfig EXCEPT !.decimal_mark = d, !.exponent_prefix = e,
                           !.use_thousands_separator = u] :
        d \in DECIMAL_MARK_SET, e \in EXPONENT_PREFIX_SET, u \in BOOLEAN}

\* the configurations that differ from the defaults in one option, some of
\* them refused by the constructors
OneOptionConfigs ==
    {[DefaultConfig EXCEPT !.indent = i] : i \in {<<>>, <<"\t">>, <<"x">>, <<" ", "x">>}}
    \cup {[DefaultConfig EXCEPT !.use_top_level_braces = TRUE]}
    \cup {[DefaultConfig EXCEPT !.line_separator = l] :
             l \in {<<"\r">>, <<"\r", "\n">>, <<";">>}}
    \cup {[DefaultConfig EXCEPT !.always_quote = TRUE]}
    \cup {[DefaultConfig EXCEPT !.break_on_line_separator = FALSE]}
    \cup {[DefaultConfig EXCEPT !.ascii_only = TRUE]}
    \cup {[DefaultConfig EXCEPT !.quote_mark = q] : q \in {SINGLE_QUOTE_MARK, "x", "\n"}}
    \cup {[DefaultConfig EXCEPT !.hex_upper_case = TRUE]}
    \cup {[DefaultConfig EXCEPT !.hex_horizontal_separator = h] : h \in {<<" ">>, <<>>}}
    \cup {[DefaultConfig EXCEPT !.hex_bytes_per_separator = b] : b \in {-1, 0, 2}}
    \cup {[DefaultConfig EXCEPT !.hex_line_length = n] : n \in {0, 3, 9}}
    \cup {[DefaultConfig EXCEPT !.hex_line_length = 3, !.hex_bytes_per_separator = b] :
             b \in {-1, 2}}

Configs == {DefaultConfig} \cup FloatConfigs \cup OneOptionConfigs

Nat63 == <<9, 2, 2, 3, 3, 7, 2, 0, 3, 6, 8, 5, 4, 7, 7, 5, 8, 0, 8>>
Nat63Less1 == <<9, 2, 2, 3, 3, 7, 2, 0, 3, 6, 8, 5, 4, 7, 7, 5, 8, 0, 7>>
Nat63Plus1 == <<9, 2, 2, 3, 3, 7, 2, 0, 3, 6, 8, 5, 4, 7, 7, 5, 8, 0, 9>>

\* the ints within the range of a Sled integer, its two ends among them
IntsInRange ==
    {IntV([neg |-> FALSE, mag |-> <<0>>]), IntV([neg |-> FALSE, mag |-> <<5, 0>>]),
     IntV([neg |-> TRUE, mag |-> <<7>>]),
     IntV([neg |-> FALSE, mag |-> <<1, 2, 3, 4, 5, 6, 7>>]),
     IntV([neg |-> FALSE, mag |-> Nat63Less1]), IntV([neg |-> TRUE, mag |-> Nat63])}

\* the ints just outside of the range
IntsOutOfRange ==
    {IntV([neg |-> FALSE, mag |-> Nat63]), IntV([neg |-> TRUE, mag |-> Nat63Plus1])}

\* 1.5, -0.25, 1234567.0, 1e16 and 1.5e-05
FiniteFloats ==
    {FloatV([neg |-> FALSE, digits |-> <<1, 5>>, exp |-> 1]),
     FloatV([neg |-> TRUE, digits |-> <<2, 5>>, exp |-> 0]),
     FloatV([neg |-> FALSE, digits |-> <<1, 2, 3, 4, 5, 6, 7>>, exp |-> 7]),
     FloatV([neg |-> FALSE, digits |-> <<1>>, exp |-> 17]),
     FloatV([neg |-> FALSE, digits |-> <<1, 5>>, exp |-> -4])}

SpecialFloats == {NAN, INF, NINF}

DEADBEEF01 == BytesV(<<222, 173, 190, 239, 1>>)

BytesValues == {BytesV(<<>>), BytesV(<<222>>), DEADBEEF, DEADBEEF01}

StrValues ==
    {StrV(<<>>), StrV(Chars("a")), StrV(Chars("John Doe")), StrV(Chars("x\ny")),
     StrV(Chars("x\n")), StrV(Chars("a\r\nb")), StrV(<<"U+233">>), StrV(Chars("1")),
     StrV(Chars("\\n")), StrV(Chars("it's")), StrV(Chars("say \"hi\"")), StrV(Chars("\f")),
     StrV(Chars("hello")), StrV(Chars("true")), StrV(Chars("a@b")), StrV(Chars("-a")),
     StrV(Chars("a=b")), StrV(Chars("a\tb")), StrV(<<"U+127">>), StrV(<<"a", "U+160">>),
     StrV(<<"U+128512">>), StrV(Chars("x\\\ny")), StrV(Chars("x\n\ny")),
     StrV(Chars("a\\nb\nc"))}

\* the values without parts
Leaves ==
    {NilV, BoolV(TRUE), BoolV(FALSE)} \cup IntsInRange \cup IntsOutOfRange
    \cup FiniteFloats \cup SpecialFloats \cup BytesValues \cup StrValues

\* {"name": "John Doe", "age": 50, "children": ["Jane", "Jimmy"]}
DataExample ==
    DictV(<< <<StrV(Chars("name")), StrV(Chars("John Doe"))>>,
             <<StrV(Chars("age")), IntV([neg |-> FALSE, mag |-> <<5, 0>>])>>,
             <<StrV(Chars("children")),
               ListV(<<StrV(Chars("Jane")), StrV(Chars("Jimmy"))>>)>> >>)

One == IntV([neg |-> FALSE, mag |-> <<1>>])
Two == IntV([neg |-> FALSE, mag |-> <<2>>])
A == StrV(Chars("a"))
B == StrV(Chars("b"))

\* the values handed to to_sled and to_sled_mini: string-keyed maps of a
\* leaf alone, in a list, in a nested map, and under an integer key; maps of
\* several pairs; and values that are no string-keyed map
Values ==
    {DictV(<<>>), DataExample}
    \cup {DictV(<< <<A, x>> >>) : x \in Leaves}
    \cup {DictV(<< <<A, ListV(<<x>>)>> >>) : x \in Leaves}
    \cup {DictV(<< <<A, DictV(<< <<B, x>> >>)>> >>) : x \in Leaves}
    \cup {DictV(<< <<A, DictV(<< <<k, B>> >>)>> >>) : k \in IntsInRange \cup IntsOutOfRange}
    \cup {DictV(<< <<A, x>>, <<B, y>> >>) :
             x \in {BytesV(<<222>>), One}, y \in {StrV(Chars("x y")), Two} \cup IntsOutOfRange}
    \cup {DictV(<< <<A, DictV(<<>>)>>, <<B, ListV(<<>>)>> >>),
          DictV(<< <<StrV(Chars("m")), DictV(<< <<One, A>>, <<Two, B>> >>)>> >>),
          DictV(<< <<A, ListV(<<One, ListV(<<Two, NAN>>), DictV(<< <<B, INF>> >>)>>)>> >>),
          DictV(<< <<A, DictV(<< <<B, One>>, <<Two, A>> >>)>> >>),
          DictV(<< <<A, DictV(<< <<BoolV(TRUE), A>>, <<Two, B>> >>)>> >>),
          DictV(<< <<A, DictV(<< <<NilV, A>> >>)>> >>),
          DictV(<< <<One, Two>> >>),
          DictV(<< <<A, One>>, <<Two, B>> >>),
          DictV(<< <<Str("ab"), One>>, <<Two, B>> >>),
          DictV(<< <<A, ListV(<< DictV(<< <<B, One>>, <<Two, A>> >>) >>)>> >>),
          DictV(<< <<A, DictV(<< <<B, DictV(<< <<B, One>>, <<Two, A>> >>)>> >>)>> >>),
          ListV(<<One>>), A, One, NilV}

\* the state before any call: a value and a configuration, no parser
InitSer ==
    /\ to_sled_obj \in Values
    /\ config \in Configs
    /\ to_sled_result = NoCall
    /\ serializer = "none"
    /\ reserialized = NoCall
    /\ _text = <<>>
    /\ _index = 0
    /\ _line_num = 1
    /\ _line_start = 0
    /\ _evaluation = None
    /\ outcome = NoCall

\* the restriction of a configuration to the keyword arguments of to_sled_mini
MiniConfig(kw) == [k \in MiniOptions |-> kw[k]]

\* what a call that constructs a serializer and runs its to_sled returns or
\* raises
Serialized(constructed, obj) ==
    LET r == IF constructed.st = "raise" THEN constructed
             ELSE Ser("to_sled", constructed.val, <<obj>>)
    IN IF r.st = "ok" THEN Returned(r.val) ELSE Raised(r.exc)

\* no Parser object is left from before the call
NoParser ==
    /\ _text' = <<>>
    /\ _index' = 0
    /\ _line_num' = 1
    /\ _line_start' = 0
    /\ _evaluation' = None
    /\ outcome' = NoCall

\* to_sled(obj, **config) of _serializer.py
to_sled ==
    /\ to_sled_result' =
           Call("to_sled", StartFields, Serialized(SledSerializer__init__(config), to_sled_obj))
    /\ serializer' = "to_sled"
    /\ NoParser
    /\ reserialized' = NoCall
    /\ UNCHANGED <<config, to_sled_obj>>

\* to_sled_mini(obj, **config) of _serializer_mini.py
to_sled_mini ==
    /\ to_sled_result' =
           Call("to_sled_mini", StartFields,
                Serialized(SledSerializerMini__init__(MiniConfig(config)), to_sled_obj))
    /\ serializer' = "to_sled_mini"
    /\ NoParser
    /\ reserialized' = NoCall
    /\ UNCHANGED <<config, to_sled_obj>>

\* from_sled(text) on the text that the serializer returned: Parser(text),
\* then parse
from_sled ==
    /\ to_sled_result.kind = "returned"
    /\ outcome.kind = "none"
    /\ _text' = standardize_line_separator(to_sled_result.value)
    /\ Finish(StartFields,
              Self("_parse_document", standardize_line_separator(to_sled_result.value),
                   StartFields, <<>>))
    /\ UNCHANGED <<config, to_sled_obj, to_sled_result, serializer, reserialized>>

\* to_sled(value, **config), or to_sled_mini(value, **config), on the value
\* that from_sled returned, by the function that made the text
reserialize ==
    /\ outcome.method = "parse"
    /\ outcome.kind = "returned"
    /\ reserialized.kind = "none"
    /\ reserialized' =
           Call(serializer, StartFields,
                Serialized(IF serializer = "to_sled_mini"
                           THEN SledSerializerMini__init__(MiniConfig(config))
                           ELSE SledSerializer__init__(config),
                           outcome.value))
    /\ UNCHANGED <<_text, _index, _line_num, _line_start, _evaluation, outcome,
                   config, to_sled_obj, to_sled_result, serializer>>

NextSer == to_sled \/ to_sled_mini \/ from_sled \/ reserialize

SpecSer == InitSer /\ [][NextSer]_vars

(***************************************************************************)
(* Properties of the serializers.                                          *)
(***************************************************************************)
\* the serializer object that the last call constructed, or the exception
\* of its constructor
Constructed ==
    IF serializer = "to_sled_mini" THEN SledSerializerMini__init__(MiniConfig(config))
    ELSE SledSerializer__init__(config)

\* the last call was to_sled or to_sled_mini with a configuration that the
\* constructor accepts
SerializedValidly == serializer # "none" /\ Constructed.st = "ok"

SerializerReturned(text) == to_sled_result.kind = "returned" /\ to_sled_result.value = text

SerializerRaisedSledError(error_category) ==
    /\ to_sled_result.kind = "raised"
    /\ to_sled_result.exc.type = "SledError"
    /\ to_sled_result.exc.error_category = error_category

InRange(n) == ~IntLess(n, SLED_INTEGER_MIN) /\ ~IntLess(SLED_INTEGER_MAX, n)

RECURSIVE IsEntity(_)
\* v is an Entity tree: concretes, lists, and maps keyed by strings only or
\* by integers only
IsEntity(v) ==
    CASE v.tag \in {"nil", "bool", "int", "float", "bytes", "str"} -> TRUE
      [] v.tag = "list" -> \A i \in 1..Len(v.items) : IsEntity(v.items[i])
      [] v.tag = "dict" ->
            /\ \/ \A i \in 1..Len(v.pairs) : v.pairs[i][1].tag = "str"
               \/ \A i \in 1..Len(v.pairs) : v.pairs[i][1].tag = "int"
            /\ \A i \in 1..Len(v.pairs) : IsEntity(v.pairs[i][2])
      [] OTHER -> FALSE

\* v is an Entity tree rooted at a string-keyed map
IsDocumentValue(v) ==
    /\ v.tag = "dict"
    /\ \A i \in 1..Len(v.pairs) : v.pairs[i][1].tag = "str"
    /\ IsEntity(v)

RECURSIVE HasOutOfRangeInteger(_)
\* v holds, at some depth, as a value or as a key, an integer out of range
HasOutOfRangeInteger(v) ==
    CASE v.tag = "int" -> ~InRange(v.n)
      [] v.tag = "list" -> \E i \in 1..Len(v.items) : HasOutOfRangeInteger(v.items[i])
      [] v.tag = "dict" -> \E i \in 1..Len(v.pairs) :
            HasOutOfRangeInteger(v.pairs[i][1]) \/ HasOutOfRangeInteger(v.pairs[i][2])
      [] OTHER -> FALSE

RECURSIVE HasSpecialFloat(_)
\* v holds, at some depth, NaN or an infinity
HasSpecialFloat(v) ==
    CASE v.tag = "float" -> v \in SpecialFloats
      [] v.tag = "list" -> \E i \in 1..Len(v.items) : HasSpecialFloat(v.items[i])
      [] v.tag = "dict" -> \E i \in 1..Len(v.pairs) : HasSpecialFloat(v.pairs[i][2])
      [] OTHER -> FALSE

\* C1: round trip.  For every Entity tree rooted at a string-keyed map, with
\* its integers in range and its floats finite, and for every configuration
\* that the constructor accepts, to_sled and to_sled_mini return a text, and
\* from_sled of that text returns a value equal to the tree.
C1_RoundTrip ==
    (/\ SerializedValidly
     /\ IsDocumentValue(to_sled_obj)
     /\ ~HasOutOfRangeInteger(to_sled_obj)
     /\ ~HasSpecialFloat(to_sled_obj))
    => /\ to_sled_result.kind = "returned"
       /\ outcome.method = "parse" => ParseReturned(to_sled_obj)

\* C8: serializing an Entity tree that holds, at any depth, as a value or as
\* an integer key of a map, an integer below -2^63 or above 2^63 - 1 raises
\* a SledError of category number range and returns no text, from to_sled
\* and from to_sled_mini alike.
C8_OutOfRangeIntegerRaisesNumberRange ==
    (/\ SerializedValidly
     /\ IsDocumentValue(to_sled_obj)
     /\ HasOutOfRangeInteger(to_sled_obj))
    => SerializerRaisedSledError(NUMBER_RANGE)

\* the keyword of NaN and of the two infinities
KeywordOf(x) ==
    CASE x = NAN -> Chars("@nan") [] x = INF -> Chars("@inf") [] x = NINF -> Chars("@ninf")

\* what precedes the entity in the document of the single pair a = entity,
\* as to_sled lays it out under the configuration, and as to_sled_mini does
SinglePairOpen ==
    LET key == IF config.always_quote
               THEN <<config.quote_mark, "a", config.quote_mark>> ELSE <<"a">>
    IN IF serializer = "to_sled_mini"
       THEN (IF config.use_top_level_braces THEN <<"{">> ELSE <<>>) \o key \o <<"=">>
       ELSE (IF config.use_top_level_braces
             THEN <<"{">> \o config.line_separator \o config.indent ELSE <<>>)
            \o key \o Chars(" = ")

\* what follows the entity
SinglePairClose ==
    IF serializer = "to_sled_mini"
    THEN (IF config.use_top_level_braces THEN <<"}">> ELSE <<>>)
    ELSE (IF config.use_top_level_braces THEN config.line_separator \o <<"}">> ELSE <<>>)
         \o <<"\n">>

SinglePairDocument(entity) == SinglePairOpen \o entity \o SinglePairClose

IsSubstring(pat, s) == \E i \in 1..Len(s) : StartsWithAt(s, i, pat)

\* the values that hold one of NaN, +Infinity, -Infinity: alone, in a list,
\* in a nested map
HoldingSpecialFloat(x) ==
    {DictV(<< <<A, x>> >>), DictV(<< <<A, ListV(<<x>>)>> >>),
     DictV(<< <<A, DictV(<< <<B, x>> >>)>> >>)}

\* C9: NaN, +Infinity and -Infinity are emitted exactly as @nan, @inf and
\* @ninf by to_sled and to_sled_mini under every accepted configuration,
\* whatever the decimal mark, the exponent prefix and the thousands
\* separator, with no digit anywhere in the text; and parsing @nan, @inf
\* and @ninf (in the texts that to_sled_mini returned, and in those that
\* to_sled returned without top-level braces) yields NaN, +Infinity and
\* -Infinity.
C9_SpecialFloatsAreKeywords ==
    \A x \in SpecialFloats :
        /\ (SerializedValidly /\ to_sled_obj = DictV(<< <<A, x>> >>))
              => SerializerReturned(SinglePairDocument(KeywordOf(x)))
        /\ (SerializedValidly /\ to_sled_obj \in HoldingSpecialFloat(x))
              => /\ to_sled_result.kind = "returned"
                 /\ IsSubstring(KeywordOf(x), to_sled_result.value)
                 /\ \A y \in SpecialFloats \ {x} :
                       ~IsSubstring(KeywordOf(y), to_sled_result.value)
                 /\ \A i \in 1..Len(to_sled_result.value) :
                       to_sled_result.value[i] \notin DIGIT_SET
        /\ (/\ outcome.method = "parse"
            /\ to_sled_obj \in HoldingSpecialFloat(x)
            /\ (serializer = "to_sled_mini" \/ ~config.use_top_level_braces))
              => ParseReturned(to_sled_obj)

\* -Infinity went through to_sled with a comma as decimal mark, E as exponent
\* prefix and no thousands separator, came out as `a = @ninf`, and
\* from_sled gave -Infinity back
C9_Witness ==
    /\ serializer = "to_sled"
    /\ config.decimal_mark = "," /\ config.exponent_prefix = "E"
    /\ ~config.use_thousands_separator
    /\ to_sled_obj = DictV(<< <<A, NINF>> >>)
    /\ SerializerReturned(Chars("a = @ninf\n"))
    /\ ParseReturned(DictV(<< <<A, NINF>> >>))

\* the strings that a configuration lets stand as a bare identity
IsIdentityString(s) ==
    /\ ~config.always_quote
    /\ s # <<>>
    /\ s[1] \notin IDENTITY_DISALLOWED_START_SYMBOLS
    /\ \A i \in 1..Len(s) :
          /\ s[i] \notin IDENTITY_DISALLOWED_SYMBOLS
          /\ ~InC0ControlSet(s[i])
          /\ ~isspace(s[i])
          /\ config.ascii_only => isascii(s[i])

\* the entity that the serializer emitted for the single pair a = entity
EmittedEntity ==
    SubSeq(to_sled_result.value, Len(SinglePairOpen) + 1,
           Len(to_sled_result.value) - Len(SinglePairClose))

\* token is a quote in the active quote mark whose content holds no control
\* character, no non-ASCII character under ascii_only, and the quote mark
\* and the backslash only as parts of escape sequences
RECURSIVE IsEscapedContent(_)
IsEscapedContent(content) ==
    \/ content = <<>>
    \/ /\ Head(content) = ESCAPE_CHARACTER
       /\ Len(content) >= 2
       /\ \/ /\ content[2] \in {ESCAPE_CHARACTER, config.quote_mark, "n", "r", "t"}
             /\ IsEscapedContent(SubSeq(content, 3, Len(content)))
          \/ /\ content[2] = UNICODE_ESCAPE_KEY
             /\ \E j \in 4..Len(content) :
                   /\ content[3] = UNICODE_ESCAPE_OPEN_MARK
                   /\ content[j] = UNICODE_ESCAPE_CLOSE_MARK
                   /\ \A k \in 4..(j - 1) :
                         content[k] \in {UpperHexDigits[d] : d \in 1..16} \cup {DIGIT_SEPARATOR}
                   /\ IsEscapedContent(SubSeq(content, j + 1, Len(content)))
    \/ /\ Head(content) \notin {ESCAPE_CHARACTER, config.quote_mark}
       /\ ~InC0ControlSet(Head(content))
       /\ config.ascii_only => isascii(Head(content))
       /\ IsEscapedContent(Tail(content))

IsQuote(token) ==
    /\ Len(token) >= 2
    /\ token[1] = config.quote_mark
    /\ token[Len(token)] = config.quote_mark
    /\ IsEscapedContent(SubSeq(token, 2, Len(token) - 1))

\* token is an @concat(...) keyword form
IsConcat(token) ==
    /\ StartsWithAt(token, 1, <<KEYWORD_MARK>> \o CONCAT_KEYWORD_NAME \o <<CONCAT_OPEN_MARK>>)
    /\ token[Len(token)] = CONCAT_CLOSE_MARK

\* a string value under the key a
IsSingleString == \E s \in StrValues : to_sled_obj = DictV(<< <<A, s>> >>)

C12_Idempotent ==
    (SerializedValidly /\ to_sled_result.kind = "returned") =>
        /\ outcome.method = "parse" => outcome.kind = "returned"
        /\ reserialized.kind # "none" =>
              /\ reserialized.kind = "returned"
              /\ reserialized.value = to_sled_result.value

RECURSIVE BraceDepths(_, _)
\* the nesting depth of braces after each character of a text
BraceDepths(text, depth) ==
    IF text = <<>> THEN <<>>
    ELSE LET d == CASE Head(text) = MAP_OPEN_MARK -> depth + 1
                    [] Head(text) = MAP_CLOSE_MARK -> depth - 1
                    [] OTHER -> depth
         IN <<d>> \o BraceDepths(Tail(text), d)

\* a text where every brace is a map mark: no quote, comment or escape
BracesAreMarks(text) ==
    \A i \in 1..Len(text) :
        text[i] \notin QUOTE_MARK_SET \cup {COMMENT_MARK, ESCAPE_CHARACTER}

\* C13: parse, on a parser newly constructed or reset, returns a map only if
\* the top-level braces are both there or both missing and the text ends
\* right after the document.  A text that
\* starts with an opening brace is accepted only if that brace is closed by
\* the last character of the text; no accepted text closes a brace that was
\* not opened or leaves one open; and an opening brace without its closing
\* brace, a closing brace without an opening one, and content after the
\* closing brace each make parse raise a SledError of category syntax.
C13_TopLevelBracesMatchAndTextEnds ==
    /\ (FreshParse /\ outcome.kind = "returned" /\ BracesAreMarks(_text)) =>
          LET depths == BraceDepths(_text, 0)
          IN /\ _index = Len(_text)
             /\ \A i \in 1..Len(_text) : depths[i] >= 0
             /\ _text # <<>> => depths[Len(_text)] = 0
             /\ (_text # <<>> /\ _text[1] = MAP_OPEN_MARK) =>
                   /\ _text[Len(_text)] = MAP_CLOSE_MARK
                   /\ \A i \in 1..(Len(_text) - 1) : depths[i] >= 1
    /\ (FreshParse /\ _text \in { Chars("{a = b"), Chars("{a = [b]"), Chars("{"),
                                 Chars("a = b}"), Chars("}"), Chars("a = {b = c}}"),
                                 Chars("{a = b}}"), Chars("{a = b} c = d"),
                                 Chars("{a = b}\n"), Chars("{}a") })
          => ParseRaisedSledError(SYNTAX)
    /\ (FreshParse /\ _text \in { Chars("{a = b}"), Chars("{a = b;\n}"), Chars("{}"),
                                 Chars("a = b"), <<>> })
          => outcome.kind = "returned"

\* parse rejected `{a = b} c = d`, a text that goes on after the closing
\* brace of the document, stopping right after that brace
C13_Witness ==
    /\ FreshParse
    /\ _text = Chars("{a = b} c = d")
    /\ ParseRaisedSledError(SYNTAX)
    /\ outcome.exc.reason = "Sled input did not end where expected."
    /\ _index = 7

\* C14: the text that to_sled_mini returns under a configuration whose quote
\* mark is one of the two of Sled is a single line: it holds no
\* line feed, no carriage return and no tab, it neither starts nor ends with
\* a space, no space stands next to a delimiter, a bracket, a brace or a
\* key-value separator, no string is broken into an @concat, and the hex
\* digits of a byte string follow each other unfolded and ungrouped.
C14_MiniIsSingleLine ==
    (/\ serializer = "to_sled_mini"
     /\ to_sled_result.kind = "returned"
     /\ config.quote_mark \in QUOTE_MARK_SET) =>
        LET text == to_sled_result.value
            marks == {DELIMITER_MARK, KEY_VALUE_SEPARATOR, MAP_OPEN_MARK, MAP_CLOSE_MARK,
                      LIST_OPEN_MARK, LIST_CLOSE_MARK}
        IN /\ \A i \in 1..Len(text) : text[i] \notin {"\n", "\r", "\t"}
           /\ text # <<>> => (text[1] # " " /\ text[Len(text)] # " ")
           /\ \A i \in 1..(Len(text) - 1) :
                 /\ text[i] \in marks => text[i + 1] # " "
                 /\ text[i + 1] \in marks => text[i] # " "
           /\ ~IsSubstring(<<KEYWORD_MARK>> \o CONCAT_KEYWORD_NAME, text)
           /\ (to_sled_obj = DataExample /\ MiniConfig(config) = MiniConfig(DefaultConfig))
                 => text = Chars("name=\"John Doe\";age=50;children=[Jane;Jimmy]")
           /\ (to_sled_obj = DictV(<< <<A, DEADBEEF01>> >>) /\ ~config.hex_upper_case)
                 => EmittedEntity = Chars("@hex(deadbeef01)")
           /\ to_sled_obj = DictV(<< <<A, Str("x\ny")>> >>)
                 => EmittedEntity = <<config.quote_mark>> \o Chars("x\\ny") \o <<config.quote_mark>>

\* to_sled_mini returned the example of its docstring on one line, and a
\* string of two lines as one quote
C14_Witness ==
    /\ serializer = "to_sled_mini"
    /\ config = DefaultConfig
    /\ to_sled_obj = DictV(<< <<A, Str("x\ny")>> >>)
    /\ SerializerReturned(Chars("a=\"x\\ny\""))

\* an integer or a finite float under the key a
IsSingleNumber ==
    \E x \in IntsInRange \cup FiniteFloats : to_sled_obj = DictV(<< <<A, x>> >>)

\* the digits before the decimal mark and the exponent of a number token,
\* its sign dropped
IntegerPart(token) ==
    LET unsigned == IF token # <<>> /\ token[1] \in SIGN_SET THEN Tail(token) ELSE token
        stops == {i \in 1..Len(unsigned) :
                     unsigned[i] \in DECIMAL_MARK_SET \cup EXPONENT_PREFIX_SET}
        stop == IF stops = {} THEN Len(unsigned) + 1
                ELSE CHOOSE i \in stops : \A j \in stops : i <= j
    IN SubSeq(unsigned, 1, stop - 1)

\* digits in groups of three from the right, a digit separator between the
\* groups
IsGroupedInThrees(digits) ==
    LET groups == split(digits, <<DIGIT_SEPARATOR>>)
    IN /\ \A g \in 1..Len(groups) :
             /\ \A i \in 1..Len(groups[g]) : groups[g][i] \in DIGIT_SET
             /\ Len(groups[g]) = 3 \/ (g = 1 /\ Len(groups[g]) \in 1..3)

HasDigitSeparator(token) == \E i \in 1..Len(token) : token[i] = DIGIT_SEPARATOR

\* C15: to_sled without use_thousands_separator emits every integer and every
\* finite float without a digit separator; with use_thousands_separator it
\* groups the digits before the decimal mark in threes; to_sled_mini never
\* emits a digit separator in a number.
C15_ThousandsSeparatorFollowsOption ==
    (SerializedValidly /\ IsSingleNumber /\ to_sled_result.kind = "returned") =>
        /\ SinglePairDocument(EmittedEntity) = to_sled_result.value
        /\ serializer = "to_sled_mini" => ~HasDigitSeparator(EmittedEntity)
        /\ (serializer = "to_sled" /\ ~config.use_thousands_separator)
              => ~HasDigitSeparator(EmittedEntity)
        /\ (serializer = "to_sled" /\ config.use_thousands_separator)
              => IsGroupedInThrees(IntegerPart(EmittedEntity))

\* the grouping of hex digits that a configuration asks for: none when the
\* separator is empty
GroupedBytes ==
    IF config.hex_horizontal_separator = <<>> THEN 0 ELSE abs(config.hex_bytes_per_separator)

\* the last call was handed a configuration that is not one of Sled: for
\* to_sled an indent with a character other than space and tab, a line
\* separator other than LF, CR and CRLF, a quote mark other than the single
\* and the double one, a positive hex_line_length below twice the bytes per
\* separator; for to_sled_mini, which takes neither indent nor line separator
\* nor hex layout, such a quote mark
HandedInvalidConfiguration ==
    \/ /\ serializer = "to_sled"
       /\ \/ \E i \in 1..Len(config.indent) : config.indent[i] \notin HORIZONTAL_SPACE_SET
          \/ config.line_separator \notin {<<"\n">>, <<"\r">>, <<"\r", "\n">>}
          \/ config.quote_mark \notin QUOTE_MARK_SET
          \/ /\ config.hex_line_length > 0
             /\ config.hex_line_length < HEX_DIGITS_PER_BYTE * GroupedBytes
    \/ /\ serializer = "to_sled_mini"
       /\ config.quote_mark \notin QUOTE_MARK_SET

\* C16: a configuration with an indent holding a character other than space
\* and tab, with an unrecognized line separator or quote mark, or with a
\* positive hex_line_length below twice the bytes per separator makes the
\* constructor raise: the call of to_sled, or of to_sled_mini, ends with the
\* exception of the constructor, whatever the value is, and returns no text.
C16_InvalidConfigurationFailsAtConstruction ==
    HandedInvalidConfiguration =>
        /\ Constructed.st = "raise"
        /\ to_sled_result.kind = "raised"
        /\ to_sled_result.exc = Constructed.exc

RECURSIVE HasMixedMap(_)
\* v holds, at some depth, a map whose keys are neither all strings nor all
\* integers (a bool is an int)
HasMixedMap(v) ==
    CASE v.tag = "list" -> \E i \in 1..Len(v.items) : HasMixedMap(v.items[i])
      [] v.tag = "dict" ->
            \/ /\ \E i \in 1..Len(v.pairs) : v.pairs[i][1].tag # "str"
               /\ \E i \in 1..Len(v.pairs) : v.pairs[i][1].tag \notin {"int", "bool"}
            \/ \E i \in 1..Len(v.pairs) : HasMixedMap(v.pairs[i][2])
      [] OTHER -> FALSE

\* v is a map keyed by strings only
IsStringKeyedMap(v) ==
    v.tag = "dict" /\ \A i \in 1..Len(v.pairs) : v.pairs[i][1].tag = "str"

BreaksOnlyWith(line_separator, text) ==
    LET lines == split(text, line_separator)
    IN \A l \in 1..Len(lines) :
           \A i \in 1..Len(lines[l]) : lines[l][i] \notin {"\n", "\r"}

\* C18: every line break in the text that to_sled returns, its end
\* included, is the configured line_separator: under LF, CR or CRLF the text
\* holds no line feed and no carriage return outside of an occurrence of
\* that separator.
C18_LineBreaksAreLineSeparator ==
    (/\ serializer = "to_sled"
     /\ to_sled_result.kind = "returned"
     /\ config.line_separator \in LineSeparators) =>
        BreaksOnlyWith(config.line_separator, to_sled_result.value)

\* C19: a map key written as a keyword form other than @concat makes parse
\* raise a SledError, as the first key of a map and as a later one, with and
\* without parentheses after the keyword; @concat('a') is a key.
C19_NonConcatKeywordKeyRejected ==
    /\ (FreshParse /\ _text \in { Chars("@hex('ab') = x"), Chars("@true('k') = x"),
                                 Chars("m = {a = x; @nil('b') = y}"), Chars("@true = x"),
                                 Chars("m = {@hex(ab) = x}"), Chars("m = {@true = x}"),
                                 Chars("m = {@nan = x}") })
          => (outcome.kind = "raised" /\ outcome.exc.type = "SledError")
    /\ (FreshParse /\ _text = Chars("@concat('a') = x"))
          => ParseReturned(DictV(<< <<Str("a"), Str("x")>> >>))

\* the text between the parentheses of the emitted @hex(...) form
EmittedHexContent ==
    SubSeq(EmittedEntity, Len(HexKeywordOpen) + 1, Len(EmittedEntity) - 1)

\* to_sled returned a text for {"a": <bytes>} whose @hex(...) form is folded
\* into lines
FoldedHex ==
    /\ serializer = "to_sled"
    /\ to_sled_result.kind = "returned"
    /\ to_sled_obj.tag = "dict"
    /\ Len(to_sled_obj.pairs) = 1
    /\ to_sled_obj.pairs[1][1] = A
    /\ to_sled_obj.pairs[1][2].tag = "bytes"
    /\ SinglePairDocument(EmittedEntity) = to_sled_result.value
    /\ SubSeq(EmittedEntity, 1, Len(HexKeywordOpen)) = HexKeywordOpen
    /\ \E i \in 1..Len(EmittedHexContent) : EmittedHexContent[i] \in {"\n", "\r"}

\* C20: when to_sled folds the hex content of a byte string into lines, the
\* hex digits left after removing line separators, indentation, padding and
\* group separators from the content of the emitted @hex(...) are exactly
\* the hex digits of the bytes, in their order.
C20_FoldedHexKeepsDigits ==
    FoldedHex => SelectSeq(EmittedHexContent, LAMBDA c : c \in HexDigits)
                     = hex(to_sled_obj.pairs[1][2].bytes)

\* the lines of the folded hex content, without the indentation that to_hex
\* puts before each
FoldedHexLines ==
    LET parts == split(EmittedHexContent, config.line_separator)
    IN [i \in 1..(Len(parts) - 2) |->
           SubSeq(parts[i + 1], Len(config.indent) + 1, Len(parts[i + 1]))]

\* line, the l-th of n lines, holds whole groups only: it neither starts nor
\* ends with the group separator and each of its groups has the digits of
\* GroupedBytes bytes; the one partial group, if any, is the last group of
\* the last line when grouping from the left and the first group of the
\* first line, after its padding, when grouping from the right
HoldsWholeGroups(line, l, n) ==
    LET unpadded == SelectSeq(line, LAMBDA c : c # " " \/ config.hex_horizontal_separator = <<" ">>)
        groups == split(unpadded, config.hex_horizontal_separator)
        partial(g) == IF config.hex_bytes_per_separator < 0
                      THEN l = n /\ g = Len(groups)
                      ELSE l = 1 /\ g = 1
    IN \A g \in 1..Len(groups) :
           /\ \A i \in 1..Len(groups[g]) : groups[g][i] \in HexDigits
           /\ \/ Len(groups[g]) = HEX_DIGITS_PER_BYTE * GroupedBytes
              \/ /\ partial(g)
                 /\ Len(groups[g]) > 0
                 /\ Len(groups[g]) < HEX_DIGITS_PER_BYTE * GroupedBytes

\* C21: in the folded hex content that to_sled emits, every line, its
\* indentation left out, has at most hex_line_length characters, and with a
\* group separator every line holds whole groups of hex digits: a line break
\* stands only where a group separator was.
C21_FoldedLinesFitAndKeepGroups ==
    FoldedHex =>
        /\ \A l \in 1..Len(FoldedHexLines) : Len(FoldedHexLines[l]) <= config.hex_line_length
        /\ GroupedBytes > 0 =>
              \A l \in 1..Len(FoldedHexLines) :
                  HoldsWholeGroups(FoldedHexLines[l], l, Len(FoldedHexLines))

\* the characters of a text
CharsOf(text) == {text[i] : i \in 1..Len(text)}

\* a byte string under the key a
IsSingleBytes == \E b \in BytesValues : to_sled_obj = DictV(<< <<A, b>> >>)

\* text with its letters A-F in lower case
LowerCased(text) ==
    [i \in 1..Len(text) |->
        IF \E d \in 11..16 : text[i] = UpperHexDigits[d]
        THEN LowerHexDigits[CHOOSE d \in 11..16 : text[i] = UpperHexDigits[d]]
        ELSE text[i]]

\* C22: to_sled and to_sled_mini turn a byte string into @hex(...) whose
\* hex digits are those of the bytes, with the letters A-F in upper case
\* under hex_upper_case and in lower case without it, and from_sled of the
\* text (that of to_sled_mini, and that of to_sled without top-level braces
\* and without folding) gives the bytes back; stated for to_sled with a
\* separator and a number of bytes per separator that ask for groups.
C22_HexCaseFollowsOption ==
    (/\ SerializedValidly
     /\ IsSingleBytes
     /\ serializer = "to_sled" => GroupedBytes > 0) =>
        /\ to_sled_result.kind = "returned"
        /\ SinglePairDocument(EmittedEntity) = to_sled_result.value
        /\ SubSeq(EmittedEntity, 1, Len(HexKeywordOpen)) = HexKeywordOpen
        /\ EmittedEntity[Len(EmittedEntity)] = HEX_CLOSE_MARK
        /\ LET digits == SelectSeq(EmittedHexContent, LAMBDA c : c \in HexDigits)
           IN /\ \A i \in 1..Len(EmittedHexContent) :
                     EmittedHexContent[i] \in HexDigits
                        \cup {"\n", "\r", " "} \cup CharsOf(config.hex_horizontal_separator)
              /\ \A i \in 1..Len(digits) :
                     digits[i] \in IF config.hex_upper_case
                                   THEN CharsOf(UpperHexDigits) ELSE CharsOf(LowerHexDigits)
              /\ (serializer = "to_sled_mini" \/ ~FoldedHex)
                    => LowerCased(digits) = hex(to_sled_obj.pairs[1][2].bytes)
        /\ (/\ outcome.method = "parse"
            /\ serializer = "to_sled_mini" \/ ~config.use_top_level_braces
            /\ serializer = "to_sled_mini" \/ ~FoldedHex)
              => ParseReturned(to_sled_obj)

\* C23: every text that to_sled returns with use_top_level_braces, the
\* braced top-level map and the line break after it, is accepted by
\* from_sled, which returns the serialized map.
C23_BracedTextParses ==
    (/\ serializer = "to_sled"
     /\ config.use_top_level_braces
     /\ to_sled_result.kind = "returned"
     /\ IsDocumentValue(to_sled_obj)
     /\ outcome.method = "parse") => ParseReturned(to_sled_obj)

\* what parse of a newly constructed Parser on _text returns or raises
OutcomeOfFreshParser ==
    LET r == Self("_parse_document", _text, StartFields, <<>>)
    IN IF r.st = "ok" THEN Returned(r.val) ELSE Raised(r.exc)

\* C24: after any sequence of parse and reset on one Parser, a call of parse
\* ends as parse of a newly constructed Parser on the same text does: it
\* returns the same map, or it fails as well; in particular parse called
\* again after a failure, without reset, fails again.
C24_ParseAsFreshParser ==
    outcome.method = "parse" =>
        /\ outcome.kind = OutcomeOfFreshParser.kind
        /\ outcome.kind = "returned" => outcome.value = OutcomeOfFreshParser.value

\* the line separators of _text before the cursor
SeparatorsBeforeCursor ==
    {i \in 1..Len(_text) : i <= _index /\ _text[i] = DEFAULT_LINE_SEPARATOR}

\* the index just after the last line separator before the cursor
StartOfCursorLine ==
    IF SeparatorsBeforeCursor = {} THEN 0
    ELSE CHOOSE i \in SeparatorsBeforeCursor : \A j \in SeparatorsBeforeCursor : j <= i

\* C25: where parse ends, at the end of the document or at the error it
\* built, the line number is 1 plus the number of line separators of the
\* normalized text before the cursor and the line start is the index just
\* after the last of them, 0 if there is none, also after an @hex(...) whose
\* content spans several lines; the line number of an error at the cursor
\* (any but the one that lists duplicate keys) is that line number.
C25_LineNumberCountsSeparators ==
    (FreshParse /\ _index <= Len(_text)) =>
        /\ _line_num = 1 + Cardinality(SeparatorsBeforeCursor)
        /\ _line_start = StartOfCursorLine
        /\ (/\ outcome.kind = "raised"
            /\ outcome.exc.type = "SledError"
            /\ outcome.exc.error_category # "duplicate map key")
              => outcome.exc.start_line_num = _line_num

\* C26: two consecutive pairs of a map, elements of a list or segments of a
\* concat with only horizontal whitespace, or nothing, between them make
\* parse raise a syntax SledError; with a delimiter mark or a line separator
\* between them (a comment ends with one), and with any delimiters before
\* the first and after the last, parse returns the document.
C26_ItemsNeedDelimiter ==
    \A case \in SeparationCases, lead \in Margins, trail \in Margins :
        /\ \A between \in Gaps(case) :
               (FreshParse /\ _text = SeparatedText(case, lead, between, trail))
                  => ParseRaisedSledError("syntax")
        /\ \A between \in Delimiters :
               (/\ FreshParse
                /\ _text = standardize_line_separator(SeparatedText(case, lead, between, trail)))
                  => ParseReturned(case.value)

\* parse raised at the second segment of a = @concat(;'x' "y")
C26_Witness ==
    /\ _text = Chars("a = @concat(;'x' \"y\")")
    /\ ParseRaisedSledError("syntax")
    /\ _index = 17

\* to_sled was given, with break_on_line_separator, a string under the key
\* a that holds the configured line separator, and returned a text
BrokenString ==
    /\ serializer = "to_sled"
    /\ to_sled_result.kind = "returned"
    /\ IsSingleString
    /\ config.break_on_line_separator
    /\ ~config.use_top_level_braces
    /\ config.quote_mark \in QUOTE_MARK_SET
    /\ config.line_separator \in LineSeparators
    /\ IsSubstring(config.line_separator, to_sled_obj.pairs[1][2].s)

\* the lines between the parentheses of the emitted @concat(...): one per
\* segment
ConcatLines ==
    LET open == <<KEYWORD_MARK>> \o CONCAT_KEYWORD_NAME \o <<CONCAT_OPEN_MARK>>
        parts == split(SubSeq(EmittedEntity, Len(open) + 1, Len(EmittedEntity) - 1),
                       config.line_separator)
    IN SubSeq(parts, 2, Len(parts) - 1)

\* C27: with break_on_line_separator, to_sled emits a string that holds the
\* configured line separator as @concat(...) with one quoted segment per
\* line of the string, each on a line of its own behind the indent, every
\* segment but the last ending with the escaped separator, and from_sled of
\* the text gives the string back.
C27_ConcatSegmentPerLine ==
    BrokenString =>
        /\ SinglePairDocument(EmittedEntity) = to_sled_result.value
        /\ IsConcat(EmittedEntity)
        /\ Len(ConcatLines) = Len(split(to_sled_obj.pairs[1][2].s, config.line_separator))
        /\ \A i \in 1..Len(ConcatLines) :
               LET segment == SubSeq(ConcatLines[i], Len(config.indent) + 1,
                                     Len(ConcatLines[i]))
                   escape == LINE_SEPARATOR_ESCAPES(config.line_separator)
               IN /\ SubSeq(ConcatLines[i], 1, Len(config.indent)) = config.indent
                  /\ IsQuote(segment)
                  /\ i < Len(ConcatLines)
                        => StartsWithAt(segment, Len(segment) - Len(escape), escape)
        /\ outcome.method = "parse" => ParseReturned(to_sled_obj)

\* the steps of the parser that take the cursor only: the methods of Parser
\* that move it, without the ones that are handed a snapshot
CursorSteps ==
    {"_parse_document", "_consume_optional_ws", "_consume_optional_ws_or_delimiters",
     "_parse_comment", "_consume_default_line_separators", "_parse_entity",
     "_parse_map_pair_after_key", "_parse_list_content", "_parse_map_key", "_parse_string",
     "_parse_integer", "_parse_keyword", "_parse_keyword_name", "_parse_hex_content",
     "_parse_concat_content", "_parse_number_excl_keyword", "_parse_optional_sign",
     "_consume_optional_digits", "_consume_exponent", "_parse_quote",
     "_parse_escape_sequence", "_parse_unicode_escape_content", "_parse_identity"}

\* the cursor after step, started with the cursor at index i of _text
CursorAfter(step, i) ==
    Self(step, _text, [index |-> i, line_num |-> 1, line_start |-> 0], <<>>).p.index

\* C28: the cursor never moves back during a parse: each step of the parser
\* (the skip to the close mark of a hex and of a Unicode escape, the scans
\* of whitespace, comments, line separators, digits, names, quotes and
\* identities, the parse of an entity, a key, a list, a concat, a document),
\* started at any index of a text of up to MaxStepTextLen characters, ends
\* with the cursor at that index or after it, and a call of parse ends with
\* the cursor at or after the index it started from.
C28_CursorNeverMovesBack ==
    /\ outcome.method = "parse" => _index >= outcome.from.index
    /\ (FreshParse /\ Len(_text) <= MaxStepTextLen) =>
          \A step \in CursorSteps : \A i \in 0..Len(_text) : CursorAfter(step, i) >= i

\* parse went over the hex content of a = @hex(DEADbeef) to its close mark
C28_Witness ==
    /\ _text = Chars("a = @hex(DEADbeef)")
    /\ ParseReturned(DictV(<< <<Str("a"), DEADBEEF>> >>))
    /\ _index = 18
    /\ CursorAfter("_parse_hex_content", 9) = 17

\* parse raised an error about one line: one that make_short_parse_error
\* built
RaisedShortError ==
    /\ outcome.method = "parse"
    /\ outcome.kind = "raised"
    /\ outcome.exc.type = "SledError"
    /\ outcome.exc.error_category # DUPLICATE_MAP_KEY

\* C29: in the message of an error about one line, the pointer line is
\* spaces followed by as many pointer characters as the invalid part is
\* long, the characters of the shown line above the pointers are the
\* characters of the invalid part (none for the end of the line), also when
\* leading whitespace was stripped and the line was cut; at most
\* MAX_ERROR_CONTEXT_LEN characters of the line stand before the invalid
\* part and at most as many after it, an ellipsis marking each cut.
C29_PointerUnderInvalidPart ==
    RaisedShortError =>
        LET w == outcome.exc.where[1]
            n == w.end_index - w.start_index
            pad == _len_leading_horizontal_space(w.pointer)
            after == Len(w.shown) - (pad + n)
        IN /\ n > 0
           /\ w.pointer = [i \in 1..pad |-> " "] \o [i \in 1..n |-> ERROR_POINTER_CHAR]
           /\ _get_range(w.shown, pad, pad + n) = _get_range(w.line, w.start_index, w.end_index)
           /\ \/ pad <= MAX_ERROR_CONTEXT_LEN
              \/ /\ pad = MAX_ERROR_CONTEXT_LEN + Len(ERROR_ELLIPSIS)
                 /\ StartsWithAt(w.shown, 1, ERROR_ELLIPSIS)
           /\ \/ after <= MAX_ERROR_CONTEXT_LEN
              \/ /\ after = MAX_ERROR_CONTEXT_LEN + Len(ERROR_ELLIPSIS)
                 /\ StartsWithAt(w.shown, Len(w.shown) - Len(ERROR_ELLIPSIS) + 1,
                                 ERROR_ELLIPSIS)

\* parse raised at the "]" of a line with two blanks, 82 characters before
\* the "]" and 82 after it: both sides are cut
C29_Witness ==
    /\ _text = LongLine(<<" ", " ">>, 77, 82)
    /\ RaisedShortError
    /\ outcome.exc.where[1].start_index = 84
    /\ Len(outcome.exc.where[1].shown) = 2 * (MAX_ERROR_CONTEXT_LEN + Len(ERROR_ELLIPSIS)) + 1
    /\ outcome.exc.where[1].pointer
          = [i \in 1..(MAX_ERROR_CONTEXT_LEN + Len(ERROR_ELLIPSIS)) |-> " "]
            \o <<ERROR_POINTER_CHAR>>

\* the steps whose success lets a loop go round again: the quote of a
\* concat, the entity of a list, the key and the rest of the pair of a map
ItemSteps ==
    {"_parse_quote", "_parse_entity", "_parse_map_key", "_parse_string", "_parse_integer",
     "_parse_map_pair_after_key"}

\* what step does, started with the cursor at index i of _text
StepFrom(step, i) ==
    Self(step, _text, [index |-> i, line_num |-> 1, line_start |-> 0], <<>>)

\* C30: parse ends on every text, by returning or by raising; its scanning
\* loops stop at the end of the input, so that a parse started inside the
\* text leaves the cursor inside the text or at its end; and a loop over
\* the pairs of a map, the items of a list or the segments of a concat goes
\* round again only after a step that consumed at least one character.
C30_ScansStopAtEndOfInput ==
    /\ outcome.method = "parse" => outcome.kind \in {"returned", "raised"}
    /\ (outcome.method = "parse" /\ outcome.from.index <= Len(_text)) => _index <= Len(_text)
    /\ (FreshParse /\ Len(_text) <= MaxStepTextLen) =>
          \A step \in ItemSteps : \A i \in 0..Len(_text) :
             StepFrom(step, i).st = "ok" => StepFrom(step, i).p.index > i

====
